---------------------------- MODULE Spec2Model ----------------------------
(***************************************************************************)
(* Matching engine of broz-matching (queue, phased scoring, pairing,       *)
(* match-session lifecycle) as a state machine.                            *)
(*                                                                         *)
(* Units.  Times are milliseconds.  A score component in [0, 1] is an      *)
(* integer in 0 .. 10000 (1e-4); the weights are percentages, so a total   *)
(* score and a minimum match score are in units of 1e-6.  Divisions        *)
(* truncate where the source divides f64 values.                           *)
(* Option<T> is a set with at most one element: {} is None, {x} Some(x).   *)
(***************************************************************************)
EXTENDS Integers, Sequences, FiniteSets, TLC

(***************************************************************************)
(* Bounds of the model.                                                    *)
(***************************************************************************)
MaxWaitMs == 3100       \* largest wait time probed by SpecPhase
NumUsers == 3           \* user ids 1 .. NumUsers

Users == 1 .. NumUsers

(***************************************************************************)
(* matching/algorithm.rs : weights                                         *)
(***************************************************************************)
W_COUNTRY == 25
W_AGE == 25
W_KINKS == 20
W_HISTORY == 15
W_FRESHNESS == 10
W_DISTANCE == 5

Max(a, b) == IF a >= b THEN a ELSE b
Min(a, b) == IF a <= b THEN a ELSE b
Abs(a) == IF a >= 0 THEN a ELSE 0 - a

(***************************************************************************)
(* matching/algorithm.rs : MatchPhase                                      *)
(***************************************************************************)
MatchPhase == {"Strict", "Normal", "Relaxed", "Desperate"}

\* `phase as u8`: the declaration order of the enum.
PhaseRank(p) ==
    CASE p = "Strict" -> 0
      [] p = "Normal" -> 1
      [] p = "Relaxed" -> 2
      [] p = "Desperate" -> 3

\* Variant: the Strict-Normal boundary one millisecond late.
from_wait_ms_off_by_one(wait_ms) ==
    IF wait_ms >= 0 /\ wait_ms <= 500 THEN "Strict"
    ELSE IF wait_ms >= 501 /\ wait_ms <= 999 THEN "Normal"
    ELSE IF wait_ms >= 1000 /\ wait_ms <= 2999 THEN "Relaxed"
    ELSE "Desperate"

from_wait_ms(wait_ms) ==
    IF wait_ms >= 0 /\ wait_ms <= 499 THEN "Strict"
    ELSE IF wait_ms >= 500 /\ wait_ms <= 999 THEN "Normal"
    ELSE IF wait_ms >= 1000 /\ wait_ms <= 2999 THEN "Relaxed"
    ELSE "Desperate"

min_match_score(p) ==
    CASE p = "Strict" -> 100000
      [] p = "Normal" -> 50000
      [] p = "Relaxed" -> 20000
      [] p = "Desperate" -> 0

(***************************************************************************)
(* matching/history.rs : PairHistory                                       *)
(***************************************************************************)
DefaultHistory ==
    [times_matched |-> 0, last_matched_at |-> 0, total_duration_secs |-> 0,
     likes |-> 0, follows |-> FALSE, messages |-> 0, skips |-> 0]

(***************************************************************************)
(* matching/algorithm.rs : score components                                *)
(***************************************************************************)
\* stability * 10 (the source's 0.1 * messages made integral).
Stability10(h) ==
    20 * h.likes + (IF h.follows THEN 30 ELSE 0) + h.messages
    + (IF h.total_duration_secs > 120 THEN 15 ELSE 0) - 20 * h.skips

\* retrievability = 1 / (1 + elapsed_hours / (9 * max(|stability|, 1)))
\*                = D / (D + elapsed_s), D = 9 * max(|stability10|, 10) * 360.
Retrievability(h, now_ms) ==
    LET d == 9 * Max(Abs(Stability10(h)), 10) * 360
        elapsed_s == (now_ms - h.last_matched_at) \div 1000
    IN  (d * 10000) \div (d + elapsed_s)

pair_modifier(h, now_ms) ==
    IF h.times_matched = 0 THEN 10500
    ELSE LET r == Retrievability(h, now_ms)
         IN  IF Stability10(h) > 0
             THEN 8500 + (20 * (10000 - r)) \div 100
             ELSE 3000 + (70 * (10000 - r)) \div 100

freshness_score(candidate_wait_ms) ==
    Min(5000 + (candidate_wait_ms * 5) \div 3, 10000)

\* Places stand for (latitude, longitude) pairs; haversine_km is tabulated
\* for them, and exp(-km / 200) for the distances of the table.
Places == {"Paris", "Lyon", "Tokyo"}

haversine_km(p, q) ==
    IF p = q THEN 0
    ELSE IF {p, q} = {"Paris", "Lyon"} THEN 392
    ELSE IF {p, q} = {"Paris", "Tokyo"} THEN 9712
    ELSE 9858

ExpNeg200(km) ==
    CASE km = 0 -> 10000
      [] km = 392 -> 1409
      [] OTHER -> 0

distance_score(user_a, user_b) ==
    IF user_a.loc # {} /\ user_b.loc # {}
    THEN LET p == CHOOSE x \in user_a.loc : TRUE
             q == CHOOSE x \in user_b.loc : TRUE
         IN  Max(ExpNeg200(haversine_km(p, q)), 500)
    ELSE 5000

age_score(age_a, age_b, filters_a, filters_b) ==
    LET diff == Abs(age_a - age_b)
        base == Max(10000 - (diff * 10000) \div 42, 500)
        \* each miss halves the penalty: base * 0.5^n
        n == (IF \E min \in filters_b.age_min : age_a < min THEN 1 ELSE 0)
           + (IF \E max \in filters_b.age_max : age_a > max THEN 1 ELSE 0)
           + (IF \E min \in filters_a.age_min : age_b < min THEN 1 ELSE 0)
           + (IF \E max \in filters_a.age_max : age_b > max THEN 1 ELSE 0)
    IN  base \div (2 ^ n)

InSeq(x, s) == \E i \in 1 .. Len(s) : s[i] = x

kinks_overlap(user_a, user_b) ==
    IF Len(user_a.kinks) = 0 /\ Len(user_b.kinks) = 0 THEN 5000
    ELSE LET intersection ==
                 Cardinality({i \in 1 .. Len(user_a.kinks) :
                                 InSeq(user_a.kinks[i], user_b.kinks)})
             max_len == Max(Max(Len(user_a.kinks), Len(user_b.kinks)), 1)
         IN  (intersection * 10000) \div max_len

country_match(user_a, user_b) ==
    IF user_a.country # {} /\ user_a.country = user_b.country THEN 10000
    ELSE IF user_a.country = {} \/ user_b.country = {} THEN 7000
    ELSE 3000

\* Variant: the country filter blocks in Normal instead of Strict.
passes_filters_in_normal(user, filters, phase) ==
    IF phase = "Normal"
    THEN ~ \E country \in filters.country : \E user_country \in user.country :
               country # user_country
    ELSE TRUE

passes_filters(user, filters, phase) ==
    IF phase = "Strict"
    THEN ~ \E country \in filters.country : \E user_country \in user.country :
               country # user_country
    ELSE TRUE

\* "Use the more lenient phase (higher wait = more relaxed)".
LenientPhase(phase_a, phase_b) ==
    IF PhaseRank(phase_a) >= PhaseRank(phase_b) THEN phase_a ELSE phase_b

calculate_score(user_a, user_b, phase_a, phase_b, history, now_ms) ==
    LET phase == LenientPhase(phase_a, phase_b)
        a_passes == passes_filters(user_a, user_b.filters, phase)
        b_passes == passes_filters(user_b, user_a.filters, phase)
        wait_a == Max(now_ms - user_a.joined_at, 0)
        wait_b == Max(now_ms - user_b.joined_at, 0)
    IN  IF ~ a_passes \/ ~ b_passes
        THEN [score |-> 0, passes_filters |-> FALSE]
        ELSE [score |-> W_COUNTRY * country_match(user_a, user_b)
                        + W_AGE * age_score(user_a.age, user_b.age,
                                            user_a.filters, user_b.filters)
                        + W_KINKS * kinks_overlap(user_a, user_b)
                        + W_HISTORY * pair_modifier(history, now_ms)
                        + W_FRESHNESS * freshness_score((wait_a + wait_b) \div 2)
                        + W_DISTANCE * distance_score(user_a, user_b),
              passes_filters |-> TRUE]

(***************************************************************************)
(* socket/handlers.rs : try_match_inner, the test applied to one candidate *)
(***************************************************************************)
\* `let min_score = phase_a.min_match_score();`
TryMatchMinScore(phase_a, phase_b) == min_match_score(phase_a)

\* One iteration of the candidate loop.  now_ms is the clock read before
\* the loop (the phases); clock is the one calculate_score reads itself.
CandidateScore(current_user, candidate, history, now_ms, clock) ==
    LET phase_a == from_wait_ms(Max(now_ms - current_user.joined_at, 0))
        phase_b == from_wait_ms(Max(now_ms - candidate.joined_at, 0))
    IN  calculate_score(current_user, candidate, phase_a, phase_b, history, clock)

\* `if cooldowns[i] { continue; }` and
\* `score.passes_filters && score.score >= min_score`.
CandidateEligible(current_user, candidate, cooldown, history, now_ms, clock) ==
    LET phase_a == from_wait_ms(Max(now_ms - current_user.joined_at, 0))
        phase_b == from_wait_ms(Max(now_ms - candidate.joined_at, 0))
        score == CandidateScore(current_user, candidate, history, now_ms, clock)
    IN  /\ ~ cooldown
        /\ score.passes_filters
        /\ score.score >= TryMatchMinScore(phase_a, phase_b)

\* The loop of try_match_inner: the first candidate of the highest score
\* among the eligible ones (a later one replaces only if strictly better).
BestMatch(current_user, candidates, cooldowns, histories, now_ms, clock) ==
    LET ok == {i \in 1 .. Len(candidates) :
                  CandidateEligible(current_user, candidates[i], cooldowns[i],
                                    histories[i], now_ms, clock)}
        sc(i) == CandidateScore(current_user, candidates[i], histories[i],
                                now_ms, clock).score
        best == {i \in ok : \A j \in ok : sc(j) < sc(i) \/ (sc(j) = sc(i) /\ i <= j)}
    IN  {candidates[i] : i \in best}

(***************************************************************************)
(* State.                                                                  *)
(*                                                                         *)
(* Redis (every command is one atomic round trip):                         *)
(*   queue       the sorted set matching:queue, entries [member, score]    *)
(*   lock        matching:lock:<user>, the time its expiry falls due       *)
(*   cooldown    matching:cooldown:<a>:<b> (a < b), likewise               *)
(*   pair        matching:pair:<match_id>, Option of [user_a, user_b]      *)
(*   user_match  matching:user_match:<user>, Option of match_id            *)
(*   pair_history matching:history:<a>:<b>, Option of PairHistory          *)
(*   session_ctr the session counters of a match (likes, follow, msgs)     *)
(* A key with an expiry exists while now is before it; 0 is "no key".      *)
(* The 3600 s and 7 day expiries lie beyond every horizon checked here     *)
(* and are not modelled.                                                   *)
(* Postgres: match_sessions, the rows in insertion order (id = index).     *)
(* tasks: the handler invocations in flight, each at an await point.       *)
(* emitted: the bag of events sent to clients (match-found, partner-left, *)
(* relayed chat-message and webrtc-signal, NOT_IN_MATCH errors).          *)
(* returned: handler invocations that have returned (history variable).    *)
(* n_events: client events received so far.                                *)
(* calc: inputs and results of the scoring functions when they are         *)
(* exercised on their own (SpecPhase, SpecScore); <<>> otherwise.          *)
(* bus, rx and rooms, room, peer_conn, http, del: the WEB_RTC service,     *)
(* described with its event bus and with its rooms below.                  *)
(***************************************************************************)
VARIABLES now, queue, lock, cooldown, pair, user_match, pair_history,
          session_ctr, match_sessions, tasks, emitted, returned, n_events,
          calc, bus, rx, rooms, room, peer_conn, http, del,
          subscriber_count, subscriber, media

redis_vars == <<queue, lock, cooldown, pair, user_match, pair_history, session_ctr>>
\* The state of the WEB_RTC service.
room_vars == <<rooms, room, peer_conn, http, del>>
\* Subscribers of the SFU: the counter of a room; the cancellation token and
\* the fan-out tasks of a subscriber.
sub_vars == <<subscriber_count, subscriber>>
\* With the read loops and the broadcast senders of a publisher.
media_vars == <<sub_vars, media>>
webrtc_vars == <<bus, rx, room_vars, media_vars>>
store_vars == <<redis_vars, match_sessions, tasks, emitted, returned, n_events,
                webrtc_vars>>
\* The state of the matching service.
matching_vars == <<now, redis_vars, match_sessions, tasks, emitted, returned,
                   n_events, calc>>
vars == <<now, queue, lock, cooldown, pair, user_match, pair_history,
          session_ctr, match_sessions, tasks, emitted, returned, n_events,
          calc, bus, rx, rooms, room, peer_conn, http, del,
          subscriber_count, subscriber, media>>

PairKeys == {k \in Users \X Users : k[1] < k[2]}
PairKey(a, b) == IF a < b THEN <<a, b>> ELSE <<b, a>>

\* Key expiries, in ms (`set_nx(&lock_key, "1", 3)`, `set(&key, "1", 5)`).
LOCK_TTL_MS == 3000
COOLDOWN_TTL_MS == 5000

KeyExists(expiry) == expiry > now

(***************************************************************************)
(* The join-queue / next-match payload of a user.  Own attributes are      *)
(* fixed per user (user 2 lives in JP, the others in FR); the client       *)
(* chooses whether to filter on country FR.  The handlers fill no          *)
(* coordinates.                                                            *)
(***************************************************************************)
CountryOf(u) == IF u = 2 THEN {"JP"} ELSE {"FR"}

Payload(u, filter_country) ==
    [age |-> 20 + 5 * u, country |-> CountryOf(u), kinks |-> <<"a">>,
     filters |-> [country |-> filter_country, age_min |-> {}, age_max |-> {},
                  kinks |-> <<>>]]

OpenPayload(u) == Payload(u, {})
Payloads(u) == {Payload(u, {}), Payload(u, {"FR"})}

QueueUser(user_id, payload, joined_at) ==
    [user_id |-> user_id, age |-> payload.age, country |-> payload.country,
     kinks |-> payload.kinks, filters |-> payload.filters, loc |-> {},
     joined_at |-> joined_at]

(***************************************************************************)
(* clients/redis.rs on the sorted set                                      *)
(***************************************************************************)
zadd(q, member, score) ==
    {e \in q : e.member # member} \cup {[member |-> member, score |-> score]}

\* ZREM of a member that is no longer there removes nothing; the client
\* discards Redis' count of removed members.
zrem(q, member) == {e \in q : e.member # member}

zcard(q) == Cardinality(q)

\* Order of ZRANGE 0 -1: by score, then by member (its JSON text, in which
\* user_id comes first, the filters next and joined_at last).
Before(e, f) ==
    LET fr(m) == IF m.filters.country = {} THEN 1 ELSE 0
    IN  \/ e.score < f.score
        \/ /\ e.score = f.score
           /\ \/ e.member.user_id < f.member.user_id
              \/ /\ e.member.user_id = f.member.user_id
                 /\ \/ fr(e.member) < fr(f.member)
                    \/ /\ fr(e.member) = fr(f.member)
                       /\ e.member.joined_at < f.member.joined_at

RECURSIVE zrange(_)
zrange(q) ==
    IF q = {} THEN <<>>
    ELSE LET first == CHOOSE e \in q : \A f \in q \ {e} : Before(e, f)
         IN  <<first.member>> \o zrange(q \ {first})

\* `members.iter().find(|u| u.user_id == *user_id)`, as an Option.
FindUser(members, user_id) ==
    LET hits == {i \in 1 .. Len(members) : members[i].user_id = user_id}
    IN  IF hits = {} THEN {}
        ELSE {members[CHOOSE i \in hits : \A j \in hits : i <= j]}

(***************************************************************************)
(* Tasks                                                                   *)
(***************************************************************************)
IdleTask ==
    [handler |-> "idle", pc |-> "idle", user |-> 0, payload |-> {},
     arg_match |-> {}, reason |-> "",
     queue_users |-> <<>>, current_user |-> {}, now_ms |-> 0,
     cooldowns |-> <<>>, best |-> {},
     removed_self |-> FALSE, removed_partner |-> FALSE, rm_member |-> {},
     match_id |-> {}, partner_id |-> {}, duration |-> 0,
     ctr |-> {}, hist |-> {}, pair_val |-> {},
     exit |-> "", searching |-> FALSE, readded |-> {}]

Emit(bag, e) ==
    IF e \in DOMAIN bag THEN [bag EXCEPT ![e] = @ + 1] ELSE bag @@ (e :> 1)

Count(bag, e) == IF e \in DOMAIN bag THEN bag[e] ELSE 0

\* The handler of task t returns.
Return(t, s) ==
    /\ tasks' = [tasks EXCEPT ![t] = IdleTask]
    /\ returned' = returned \cup
           {[handler |-> s.handler, user |-> s.user, payload |-> s.payload,
             arg_match |-> s.arg_match, partner_id |-> s.partner_id,
             match_id |-> s.match_id, exit |-> s.exit,
             searching |-> s.searching, removed_self |-> s.removed_self,
             removed_partner |-> s.removed_partner, readded |-> s.readded]}

Goto(t, s) == tasks' = [tasks EXCEPT ![t] = s] /\ UNCHANGED returned

(***************************************************************************)
(* socket/handlers.rs : on_join_queue                                      *)
(***************************************************************************)
on_join_queue(t) ==
    LET s == tasks[t] IN
    /\ s.pc \in {"jq_is_in_queue", "jq_active_match", "jq_add", "jq_size"}
    /\ CASE s.pc = "jq_is_in_queue" ->
              \* queue::is_in_queue: ZRANGE, any member of this user
              /\ IF FindUser(zrange(queue), s.user) # {}
                 THEN Return(t, s)            \* error ALREADY_IN_QUEUE
                 ELSE Goto(t, [s EXCEPT !.pc = "jq_active_match"])
              /\ UNCHANGED <<redis_vars, match_sessions, emitted>>
         [] s.pc = "jq_active_match" ->
              \* queue::get_user_active_match: GET
              /\ IF user_match[s.user] # {}
                 THEN Return(t, s)            \* error ALREADY_IN_MATCH
                 ELSE Goto(t, [s EXCEPT !.pc = "jq_add"])
              /\ UNCHANGED <<redis_vars, match_sessions, emitted>>
         [] s.pc = "jq_add" ->
              \* joined_at = Utc::now(); queue::add_to_queue: ZADD score now
              /\ LET payload == CHOOSE x \in s.payload : TRUE
                 IN  queue' = zadd(queue, QueueUser(s.user, payload, now), now)
              /\ Goto(t, [s EXCEPT !.pc = "jq_size"])
              /\ UNCHANGED <<lock, cooldown, pair, user_match, pair_history,
                             session_ctr, match_sessions, emitted>>
         [] s.pc = "jq_size" ->
              \* queue::get_queue_size: ZCARD; emit queue-joined; try_match
              /\ Goto(t, [s EXCEPT !.pc = "tm_lock"])
              /\ UNCHANGED <<redis_vars, match_sessions, emitted>>
    /\ UNCHANGED <<webrtc_vars, calc, now, n_events>>

(***************************************************************************)
(* socket/handlers.rs : try_match                                          *)
(***************************************************************************)
\* SET key "1" NX EX 3: sets the key only if it does not exist.
set_nx(expiry) == ~ KeyExists(expiry)

\* Variant: the key is left to its expiry.
redis_del_skipped(keys, key) == keys

\* `state.redis.del(&lock_key)`: the key is gone, whoever set it.  (The
\* commands of the store succeed here; the result of this one is discarded,
\* a key it could not delete lapses with its expiry.)
redis_del(keys, key) == [keys EXCEPT ![key] = 0]

\* `socket.emit("searching", ..)` to the initiating socket, and the exit
\* taken (history fields of the attempt).
Searching(s, exit) == [s EXCEPT !.searching = TRUE, !.exit = exit]

try_match(t) ==
    LET s == tasks[t] IN
    /\ s.pc \in {"tm_lock", "tm_unlock"}
    /\ CASE s.pc = "tm_lock" ->
              IF set_nx(lock[s.user])
              THEN /\ lock' = [lock EXCEPT ![s.user] = now + LOCK_TTL_MS]
                   /\ Goto(t, [s EXCEPT !.pc = "tm_queue_users"])
              ELSE /\ UNCHANGED lock       \* emit searching; return
                   /\ Return(t, Searching(s, "lock_held"))
         [] s.pc = "tm_unlock" ->
              \* try_match_inner has returned: release the lock, return
              /\ lock' = redis_del(lock, s.user)
              /\ Return(t, s)
    /\ UNCHANGED <<webrtc_vars, calc, now, queue, cooldown, pair, user_match, pair_history,
                   session_ctr, match_sessions, emitted, n_events>>

(***************************************************************************)
(* matching/queue.rs : remove_from_queue, in its two round trips           *)
(***************************************************************************)
\* ZRANGE, then the first member of this user (None: `Ok(false)`).
RemoveLookup(q, user_id) == FindUser(zrange(q), user_id)

\* ZREM of the member the lookup found, then `Ok(true)`.
RemoveMember(q, member) == zrem(q, member)

(***************************************************************************)
(* socket/handlers.rs : try_match_inner                                    *)
(***************************************************************************)
TmPcs == {"tm_queue_users", "tm_cooldowns", "tm_histories", "tm_rm_self",
          "tm_rm_self_zrem", "tm_rm_partner", "tm_rm_partner_zrem",
          "tm_readd_self", "tm_readd_partner", "tm_insert", "tm_set_pair",
          "tm_set_user_a", "tm_set_user_b", "tm_cooldown"}

Candidates(s) ==
    SelectSeq(s.queue_users, LAMBDA u : u.user_id # s.user)

NewMatchSession(user_a_id, user_b_id) ==
    [user_a_id |-> user_a_id, user_b_id |-> user_b_id, started_at |-> now,
     ended_at |-> {}, end_reason |-> {}, duration_secs |-> {}]

\* Variant: after a race nobody is put back.
AfterRemovalsNoPutBack(s) ==
    IF ~ s.removed_self \/ ~ s.removed_partner THEN "tm_unlock" ELSE "tm_insert"

\* `if !removed_self || !removed_partner { put back; searching; return }`
AfterRemovals(s) ==
    IF ~ s.removed_self \/ ~ s.removed_partner
    THEN IF s.removed_self THEN "tm_readd_self"
         ELSE IF s.removed_partner THEN "tm_readd_partner"
         ELSE "tm_unlock"
    ELSE "tm_insert"

\* What follows the put-backs: after a race "searching" is emitted, after a
\* database failure nothing is; both return to try_match.
AfterPutBack(s) ==
    IF s.exit \in {"db_get", "insert"}
    THEN [s EXCEPT !.pc = "tm_unlock"]
    ELSE [Searching(s, "race") EXCEPT !.pc = "tm_unlock"]

\* The attempt after its second removal.
Removed(s) ==
    IF AfterRemovals(s) = "tm_unlock" THEN AfterPutBack(s)
    ELSE [s EXCEPT !.pc = AfterRemovals(s)]

MatchFound(to, match_id, partner) ==
    [event |-> "match-found", to |-> to, match_id |-> match_id, partner |-> partner]

\* `socket.emit("match-found", ..)` and `socket.to(partner_room).emit(..)`
\* Variant: match-found goes to the initiating user only.
EmitMatchFoundInitiatorOnly(bag, match_id, user_id, partner_id) ==
    Emit(bag, MatchFound(user_id, match_id, partner_id))

EmitMatchFound(bag, match_id, user_id, partner_id) ==
    Emit(Emit(bag, MatchFound(user_id, match_id, partner_id)),
         MatchFound(partner_id, match_id, user_id))

try_match_inner(t) ==
    LET s == tasks[t]
        partner == CHOOSE x \in s.best : TRUE
        current == CHOOSE x \in s.current_user : TRUE
        mid == CHOOSE x \in s.match_id : TRUE
    IN
    /\ s.pc \in TmPcs
    /\ CASE s.pc = "tm_queue_users" ->
              \* queue::get_queue_users; find the current user; read the clock
              /\ LET members == zrange(queue)
                     me == FindUser(members, s.user)
                 IN  Goto(t, IF me = {}
                             THEN [s EXCEPT !.pc = "tm_unlock",
                                            !.exit = "not_in_queue"]
                             ELSE [s EXCEPT !.pc = "tm_cooldowns",
                                            !.queue_users = members,
                                            !.current_user = me,
                                            !.now_ms = now])
              /\ UNCHANGED <<redis_vars, match_sessions, emitted>>
         [] s.pc = "tm_cooldowns" ->
              \* queue::has_cooldowns_batch
              /\ LET c == Candidates(s)
                 IN  Goto(t, [s EXCEPT !.pc = "tm_histories",
                                 !.cooldowns =
                                    [i \in 1 .. Len(c) |->
                                       KeyExists(cooldown[PairKey(s.user, c[i].user_id)])]])
              /\ UNCHANGED <<redis_vars, match_sessions, emitted>>
         [] s.pc = "tm_histories" ->
              \* history::get_pair_histories_batch, then the candidate loop
              /\ LET c == Candidates(s)
                     histories ==
                        [i \in 1 .. Len(c) |->
                           LET h == pair_history[PairKey(s.user, c[i].user_id)]
                           IN  IF h = {} THEN DefaultHistory
                               ELSE CHOOSE x \in h : TRUE]
                     best == BestMatch(current, c, s.cooldowns, histories,
                                       s.now_ms, now)
                 IN  Goto(t, IF best = {}
                             THEN [Searching(s, "no_candidate") EXCEPT
                                      !.pc = "tm_unlock"]
                             ELSE [s EXCEPT !.pc = "tm_rm_self", !.best = best])
              /\ UNCHANGED <<redis_vars, match_sessions, emitted>>
         [] s.pc = "tm_rm_self" ->
              /\ LET m == RemoveLookup(queue, s.user)
                 IN  Goto(t, IF m = {}
                             THEN [s EXCEPT !.pc = "tm_rm_partner",
                                            !.removed_self = FALSE]
                             ELSE [s EXCEPT !.pc = "tm_rm_self_zrem",
                                            !.rm_member = m])
              /\ UNCHANGED <<redis_vars, match_sessions, emitted>>
         [] s.pc = "tm_rm_self_zrem" ->
              /\ queue' = RemoveMember(queue, CHOOSE m \in s.rm_member : TRUE)
              /\ Goto(t, [s EXCEPT !.pc = "tm_rm_partner", !.rm_member = {},
                                   !.removed_self = TRUE])
              /\ UNCHANGED <<lock, cooldown, pair, user_match, pair_history,
                             session_ctr, match_sessions, emitted>>
         [] s.pc = "tm_rm_partner" ->
              /\ LET m == RemoveLookup(queue, partner.user_id)
                 IN  Goto(t, IF m = {}
                             THEN Removed([s EXCEPT !.removed_partner = FALSE])
                             ELSE [s EXCEPT !.pc = "tm_rm_partner_zrem",
                                            !.rm_member = m])
              /\ UNCHANGED <<redis_vars, match_sessions, emitted>>
         [] s.pc = "tm_rm_partner_zrem" ->
              /\ queue' = RemoveMember(queue, CHOOSE m \in s.rm_member : TRUE)
              /\ Goto(t, Removed([s EXCEPT !.removed_partner = TRUE,
                                           !.rm_member = {}]))
              /\ UNCHANGED <<lock, cooldown, pair, user_match, pair_history,
                             session_ctr, match_sessions, emitted>>
         [] s.pc = "tm_readd_self" ->
              \* queue::add_to_queue(&current_user): ZADD score now
              /\ queue' = zadd(queue, current, now)
              /\ LET s1 == [s EXCEPT !.readded = @ \cup {s.user}]
                 IN  Goto(t, IF s.removed_partner
                             THEN [s1 EXCEPT !.pc = "tm_readd_partner"]
                             ELSE AfterPutBack(s1))
              /\ UNCHANGED <<lock, cooldown, pair, user_match, pair_history,
                             session_ctr, match_sessions, emitted>>
         [] s.pc = "tm_readd_partner" ->
              /\ queue' = zadd(queue, partner, now)
              /\ Goto(t, AfterPutBack([s EXCEPT !.readded =
                                           @ \cup {partner.user_id}]))
              /\ UNCHANGED <<lock, cooldown, pair, user_match, pair_history,
                             session_ctr, match_sessions, emitted>>
         [] s.pc = "tm_insert" ->
              \* INSERT INTO match_sessions .. RETURNING
              /\ match_sessions' =
                    Append(match_sessions, NewMatchSession(s.user, partner.user_id))
              /\ Goto(t, [s EXCEPT !.pc = "tm_set_pair",
                                   !.match_id = {Len(match_sessions) + 1}])
              /\ UNCHANGED <<redis_vars, emitted>>
         [] s.pc = "tm_set_pair" ->
              \* queue::set_active_pair, first SET
              /\ pair' = {p \in pair : p.match_id # mid} \cup
                         {[match_id |-> mid, user_a |-> s.user,
                           user_b |-> partner.user_id]}
              /\ Goto(t, [s EXCEPT !.pc = "tm_set_user_a"])
              /\ UNCHANGED <<queue, lock, cooldown, user_match, pair_history,
                             session_ctr, match_sessions, emitted>>
         [] s.pc = "tm_set_user_a" ->
              /\ user_match' = [user_match EXCEPT ![s.user] = {mid}]
              /\ Goto(t, [s EXCEPT !.pc = "tm_set_user_b"])
              /\ UNCHANGED <<queue, lock, cooldown, pair, pair_history,
                             session_ctr, match_sessions, emitted>>
         [] s.pc = "tm_set_user_b" ->
              /\ user_match' = [user_match EXCEPT ![partner.user_id] = {mid}]
              /\ Goto(t, [s EXCEPT !.pc = "tm_cooldown"])
              /\ UNCHANGED <<queue, lock, cooldown, pair, pair_history,
                             session_ctr, match_sessions, emitted>>
         [] s.pc = "tm_cooldown" ->
              \* queue::set_cooldown; then both match-found events are
              \* emitted and session-started is published (no state here)
              /\ cooldown' = [cooldown EXCEPT ![PairKey(s.user, partner.user_id)] =
                                 now + COOLDOWN_TTL_MS]
              /\ emitted' = EmitMatchFound(emitted, mid, s.user, partner.user_id)
              /\ Goto(t, [s EXCEPT !.pc = "tm_unlock", !.exit = "matched"])
              /\ UNCHANGED <<queue, lock, pair, user_match, pair_history,
                             session_ctr, match_sessions>>
    /\ UNCHANGED <<webrtc_vars, calc, now, n_events>>

(***************************************************************************)
(* socket/handlers.rs : try_match_inner, the failures of its stores        *)
(***************************************************************************)
\* `Err(e) => { tracing::error!(.., "failed to get queue users"); return }`
get_queue_users_err(t) ==
    LET s == tasks[t] IN
    /\ s.pc = "tm_queue_users"
    /\ Goto(t, [s EXCEPT !.pc = "tm_unlock", !.exit = "queue_error"])
    /\ UNCHANGED <<webrtc_vars, calc, now, redis_vars, match_sessions, emitted,
                   n_events>>

DbFailures == {"db_get", "insert"}

\* `db.get()` or the INSERT fails: both users are put back, nothing is
\* emitted, return.
db_err(t, failure) ==
    LET s == tasks[t] IN
    /\ s.pc = "tm_insert"
    /\ Goto(t, [s EXCEPT !.pc = "tm_readd_self", !.exit = failure])
    /\ UNCHANGED <<webrtc_vars, calc, now, redis_vars, match_sessions, emitted,
                   n_events>>

(***************************************************************************)
(* matching/queue.rs : get_partner                                         *)
(***************************************************************************)
\* Variant: the membership test dropped, any caller gets user_a or user_b.
get_partner_of_any_caller(match_id, user_id) ==
    LET rec == {p \in pair : p.match_id = match_id}
    IN  {p.user_b : p \in {q \in rec : q.user_a = user_id}}
        \cup {p.user_a : p \in {q \in rec : q.user_a # user_id}}

get_partner(match_id, user_id) ==
    LET rec == {p \in pair : p.match_id = match_id}
    IN  {p.user_b : p \in {q \in rec : q.user_a = user_id}}
        \cup {p.user_a : p \in {q \in rec : q.user_a # user_id /\ q.user_b = user_id}}

PartnerLeft(to, match_id, from) ==
    [event |-> "partner-left", to |-> to, match_id |-> match_id, partner |-> from]

\* Where the caller of end_match_session goes on.
AfterEndMatch(s) ==
    IF s.handler = "next-match" THEN "nx_rm" ELSE "return"

Continue(t, s) ==
    IF s.pc = "return" THEN Return(t, s) ELSE Goto(t, s)

(***************************************************************************)
(* socket/handlers.rs : end_match_session (database part)                  *)
(***************************************************************************)
end_match_session(t) ==
    LET s == tasks[t]
        mid == CHOOSE x \in s.arg_match : TRUE
    IN
    /\ s.pc \in {"em_get_partner", "em_find_session", "em_update_session"}
    /\ CASE s.pc = "em_get_partner" ->
              /\ Goto(t, [s EXCEPT !.pc = "em_find_session",
                                   !.partner_id = get_partner(mid, s.user)])
              /\ UNCHANGED match_sessions
         [] s.pc = "em_find_session" ->
              \* match_sessions.find(match_id); not found: clean up, return
              /\ Goto(t, IF mid \in DOMAIN match_sessions
                         THEN [s EXCEPT !.pc = "em_update_session",
                                        !.now_ms = now,
                                        !.duration =
                                           (now - match_sessions[mid].started_at) \div 1000]
                         ELSE [s EXCEPT !.pc = "rap_get", !.partner_id = {}])
              /\ UNCHANGED match_sessions
         [] s.pc = "em_update_session" ->
              /\ match_sessions' =
                    [match_sessions EXCEPT ![mid] =
                        [@ EXCEPT !.ended_at = {s.now_ms},
                                  !.end_reason = {s.reason},
                                  !.duration_secs = {s.duration}]]
              /\ Goto(t, [s EXCEPT !.pc = IF s.partner_id # {} THEN "rme_read"
                                          ELSE "rap_get"])
    /\ UNCHANGED <<webrtc_vars, calc, now, redis_vars, emitted, n_events>>

(***************************************************************************)
(* matching/history.rs : record_match_end                                  *)
(***************************************************************************)
NoCounters == [likes |-> 0, follow |-> FALSE, msgs |-> 0]

SessionCounters(match_id) ==
    IF \E c \in session_ctr : c.match_id = match_id
    THEN LET c == CHOOSE c \in session_ctr : c.match_id = match_id
         IN  [likes |-> c.likes, follow |-> c.follow, msgs |-> c.msgs]
    ELSE NoCounters

\* "Update": the fold of one session into the pair's history.
FoldHistory(history, ctr, duration_secs) ==
    [times_matched |-> history.times_matched + 1,
     last_matched_at |-> now,
     total_duration_secs |-> history.total_duration_secs + duration_secs,
     likes |-> Min(history.likes + ctr.likes, 255),
     follows |-> history.follows \/ ctr.follow,
     messages |-> history.messages + ctr.msgs,
     skips |-> IF duration_secs < 15 THEN history.skips + 1 ELSE history.skips]

record_match_end(t) ==
    LET s == tasks[t]
        mid == CHOOSE x \in s.arg_match : TRUE
        key == PairKey(s.user, CHOOSE x \in s.partner_id : TRUE)
    IN
    /\ s.pc \in {"rme_read", "rme_get_hist", "rme_save", "rme_del"}
    /\ CASE s.pc = "rme_read" ->
              \* the three GETs of the session counters
              /\ Goto(t, [s EXCEPT !.pc = "rme_get_hist",
                                   !.ctr = {SessionCounters(mid)}])
              /\ UNCHANGED <<pair_history, session_ctr>>
         [] s.pc = "rme_get_hist" ->
              \* get_pair_history, then the update of the local copy
              /\ LET h == IF pair_history[key] = {} THEN DefaultHistory
                          ELSE CHOOSE x \in pair_history[key] : TRUE
                 IN  Goto(t, [s EXCEPT !.pc = "rme_save",
                                 !.hist = {FoldHistory(h, CHOOSE c \in s.ctr : TRUE,
                                                       Max(s.duration, 0))}])
              /\ UNCHANGED <<pair_history, session_ctr>>
         [] s.pc = "rme_save" ->
              /\ pair_history' = [pair_history EXCEPT ![key] = s.hist]
              /\ Goto(t, [s EXCEPT !.pc = "rme_del", !.hist = {}, !.ctr = {}])
              /\ UNCHANGED session_ctr
         [] s.pc = "rme_del" ->
              \* the three DELs of the session counters
              /\ session_ctr' = {c \in session_ctr : c.match_id # mid}
              /\ Goto(t, [s EXCEPT !.pc = "rap_get"])
              /\ UNCHANGED pair_history
    /\ UNCHANGED <<webrtc_vars, calc, now, queue, lock, cooldown, pair, user_match,
                   match_sessions, emitted, n_events>>

(***************************************************************************)
(* matching/queue.rs : remove_active_pair, then the rest of                *)
(* end_match_session (partner-left, session-ended) and its caller          *)
(***************************************************************************)
NotifyPartner(bag, s) ==
    IF s.partner_id = {} THEN bag
    ELSE Emit(bag, PartnerLeft(CHOOSE x \in s.partner_id : TRUE,
                               CHOOSE x \in s.arg_match : TRUE, s.user))

remove_active_pair(t) ==
    LET s == tasks[t]
        mid == CHOOSE x \in s.arg_match : TRUE
        val == CHOOSE x \in s.pair_val : TRUE
    IN
    /\ s.pc \in {"rap_get", "rap_del_a", "rap_del_b", "rap_del_pair"}
    /\ CASE s.pc = "rap_get" ->
              /\ LET v == {p \in pair : p.match_id = mid}
                 IN  Goto(t, [s EXCEPT !.pc = IF v = {} THEN "rap_del_pair"
                                              ELSE "rap_del_a",
                                       !.pair_val = v])
              /\ UNCHANGED <<pair, user_match, emitted>>
         [] s.pc = "rap_del_a" ->
              /\ user_match' = [user_match EXCEPT ![val.user_a] = {}]
              /\ Goto(t, [s EXCEPT !.pc = "rap_del_b"])
              /\ UNCHANGED <<pair, emitted>>
         [] s.pc = "rap_del_b" ->
              /\ user_match' = [user_match EXCEPT ![val.user_b] = {}]
              /\ Goto(t, [s EXCEPT !.pc = "rap_del_pair", !.pair_val = {}])
              /\ UNCHANGED <<pair, emitted>>
         [] s.pc = "rap_del_pair" ->
              \* DEL of the pair key; then partner-left to the partner's
              \* room, session-ended published, and back in the caller
              /\ pair' = {p \in pair : p.match_id # mid}
              /\ emitted' = NotifyPartner(emitted, s)
              /\ Continue(t, [s EXCEPT !.pc = AfterEndMatch(s)])
              /\ UNCHANGED user_match
    /\ UNCHANGED <<webrtc_vars, calc, now, queue, lock, cooldown, pair_history, session_ctr,
                   match_sessions, n_events>>

(***************************************************************************)
(* socket/handlers.rs : on_next_match                                      *)
(***************************************************************************)
on_next_match(t) ==
    LET s == tasks[t] IN
    /\ s.pc \in {"nx_active_match", "nx_rm", "nx_rm_zrem", "nx_add", "nx_size"}
    /\ CASE s.pc = "nx_active_match" ->
              \* get_user_active_match; Some: end_match_session(.., "next")
              /\ Goto(t, IF user_match[s.user] # {}
                         THEN [s EXCEPT !.pc = "em_get_partner",
                                        !.arg_match = user_match[s.user],
                                        !.reason = "next"]
                         ELSE [s EXCEPT !.pc = "nx_rm"])
              /\ UNCHANGED queue
         [] s.pc = "nx_rm" ->
              /\ LET m == RemoveLookup(queue, s.user)
                 IN  Goto(t, IF m = {} THEN [s EXCEPT !.pc = "nx_add"]
                             ELSE [s EXCEPT !.pc = "nx_rm_zrem", !.rm_member = m])
              /\ UNCHANGED queue
         [] s.pc = "nx_rm_zrem" ->
              /\ queue' = RemoveMember(queue, CHOOSE m \in s.rm_member : TRUE)
              /\ Goto(t, [s EXCEPT !.pc = "nx_add", !.rm_member = {}])
         [] s.pc = "nx_add" ->
              /\ LET payload == CHOOSE x \in s.payload : TRUE
                 IN  queue' = zadd(queue, QueueUser(s.user, payload, now), now)
              /\ Goto(t, [s EXCEPT !.pc = "nx_size"])
         [] s.pc = "nx_size" ->
              /\ Goto(t, [s EXCEPT !.pc = "tm_lock"])
              /\ UNCHANGED queue
    /\ UNCHANGED <<webrtc_vars, calc, now, lock, cooldown, pair, user_match, pair_history,
                   session_ctr, match_sessions, emitted, n_events>>

(***************************************************************************)
(* socket/handlers.rs : on_disconnect (the presence keys are not modelled) *)
(***************************************************************************)
on_disconnect(t) ==
    LET s == tasks[t] IN
    /\ s.pc \in {"dc_rm", "dc_rm_zrem", "dc_active_match"}
    /\ CASE s.pc = "dc_rm" ->
              /\ LET m == RemoveLookup(queue, s.user)
                 IN  Goto(t, IF m = {} THEN [s EXCEPT !.pc = "dc_active_match"]
                             ELSE [s EXCEPT !.pc = "dc_rm_zrem", !.rm_member = m])
              /\ UNCHANGED queue
         [] s.pc = "dc_rm_zrem" ->
              /\ queue' = RemoveMember(queue, CHOOSE m \in s.rm_member : TRUE)
              /\ Goto(t, [s EXCEPT !.pc = "dc_active_match", !.rm_member = {}])
         [] s.pc = "dc_active_match" ->
              /\ IF user_match[s.user] # {}
                 THEN Goto(t, [s EXCEPT !.pc = "em_get_partner",
                                        !.arg_match = user_match[s.user],
                                        !.reason = "disconnect"])
                 ELSE Return(t, s)
              /\ UNCHANGED queue
    /\ UNCHANGED <<webrtc_vars, calc, now, lock, cooldown, pair, user_match, pair_history,
                   session_ctr, match_sessions, emitted, n_events>>

(***************************************************************************)
(* socket/handlers.rs : on_leave_queue                                     *)
(***************************************************************************)
on_leave_queue(t) ==
    LET s == tasks[t] IN
    /\ s.pc \in {"lq_rm", "lq_rm_zrem"}
    /\ CASE s.pc = "lq_rm" ->
              /\ LET m == RemoveLookup(queue, s.user)
                 IN  IF m = {} THEN Return(t, s)
                     ELSE Goto(t, [s EXCEPT !.pc = "lq_rm_zrem", !.rm_member = m])
              /\ UNCHANGED queue
         [] s.pc = "lq_rm_zrem" ->
              /\ queue' = RemoveMember(queue, CHOOSE m \in s.rm_member : TRUE)
              /\ Return(t, [s EXCEPT !.rm_member = {}])
    /\ UNCHANGED <<webrtc_vars, calc, now, lock, cooldown, pair, user_match, pair_history,
                   session_ctr, match_sessions, emitted, n_events>>

(***************************************************************************)
(* socket/handlers.rs : on_chat_message, on_webrtc_signal                  *)
(***************************************************************************)
\* The ErrorPayload with code NOT_IN_MATCH, emitted to the sender's socket.
NotInMatch(to, match_id) ==
    [event |-> "error", to |-> to, match_id |-> match_id, partner |-> to]

\* socket.to("user:{partner_id}").emit(event, ..): match_id and sender_id
\* travel in the message.
Relay(event, partner_id, match_id, sender_id) ==
    [event |-> event, to |-> partner_id, match_id |-> match_id,
     partner |-> sender_id]

\* history.rs increment_session_msgs: INCR creates the key at 1.
increment_session_msgs(ctrs, match_id) ==
    IF \E c \in ctrs : c.match_id = match_id
    THEN {IF c.match_id = match_id THEN [c EXCEPT !.msgs = @ + 1] ELSE c : c \in ctrs}
    ELSE ctrs \cup {[match_id |-> match_id, likes |-> 0, follow |-> FALSE, msgs |-> 1]}

on_chat_message(t) ==
    LET s == tasks[t]
        mid == CHOOSE x \in s.arg_match : TRUE
    IN
    /\ s.pc \in {"cm_get_partner", "cm_incr", "cm_expire"}
    /\ CASE s.pc = "cm_get_partner" ->
              /\ LET p == get_partner(mid, s.user)
                 IN  IF p = {}
                     THEN /\ emitted' = Emit(emitted, NotInMatch(s.user, mid))
                          /\ Return(t, s)
                     ELSE /\ Goto(t, [s EXCEPT !.pc = "cm_incr", !.partner_id = p])
                          /\ UNCHANGED emitted
              /\ UNCHANGED session_ctr
         [] s.pc = "cm_incr" ->
              /\ session_ctr' = increment_session_msgs(session_ctr, mid)
              /\ Goto(t, [s EXCEPT !.pc = "cm_expire"])
              /\ UNCHANGED emitted
         [] s.pc = "cm_expire" ->
              \* EXPIRE of the counter, then the relay to the partner's room
              /\ emitted' = Emit(emitted, Relay("chat-message",
                                   CHOOSE x \in s.partner_id : TRUE, mid, s.user))
              /\ Return(t, s)
              /\ UNCHANGED session_ctr
    /\ UNCHANGED <<webrtc_vars, calc, now, queue, lock, cooldown, pair, user_match, pair_history,
                   match_sessions, n_events>>

on_webrtc_signal(t) ==
    LET s == tasks[t]
        mid == CHOOSE x \in s.arg_match : TRUE
        p == get_partner(mid, s.user)
    IN
    /\ s.pc = "ws_get_partner"
    /\ emitted' = IF p = {} THEN Emit(emitted, NotInMatch(s.user, mid))
                  ELSE Emit(emitted, Relay("webrtc-signal",
                                           CHOOSE x \in p : TRUE, mid, s.user))
    /\ Return(t, [s EXCEPT !.partner_id = p])
    /\ UNCHANGED <<webrtc_vars, calc, now, redis_vars, match_sessions, n_events>>

(***************************************************************************)
(* Client events.  A handler starts at its first await.                    *)
(***************************************************************************)
MaxPerUser == 2

Slots == Users \X (1 .. MaxPerUser)

Idle(t) == tasks[t].handler = "idle"

\* The free slot of lowest index among the per_user first ones of user u.
FreeSlot(t, u, per_user) ==
    /\ t \in Slots
    /\ t[1] = u
    /\ t[2] <= per_user
    /\ Idle(t)
    /\ \A k \in 1 .. (t[2] - 1) : ~ Idle(<<u, k>>)

recv_join_queue(t, u, payload) ==
    /\ tasks' = [tasks EXCEPT ![t] =
                       [IdleTask EXCEPT !.handler = "join-queue",
                                        !.pc = "jq_is_in_queue",
                                        !.user = u, !.payload = {payload}]]
    /\ n_events' = n_events + 1
    /\ UNCHANGED <<webrtc_vars, calc, now, redis_vars, match_sessions, emitted, returned>>

recv_next_match(t, u, payload) ==
    /\ tasks' = [tasks EXCEPT ![t] =
                       [IdleTask EXCEPT !.handler = "next-match",
                                        !.pc = "nx_active_match",
                                        !.user = u, !.payload = {payload}]]
    /\ n_events' = n_events + 1
    /\ UNCHANGED <<webrtc_vars, calc, now, redis_vars, match_sessions, emitted, returned>>

\* The matches a client has been told of by match-found.
ToldMatches(u) ==
    {e.match_id : e \in {x \in DOMAIN emitted : x.event = "match-found" /\ x.to = u}}

\* on_end_call: `reason` defaults to "user_ended"; the handler starts in
\* end_match_session and emits call-ended after it.
recv_end_call(t, u, m) ==
    /\ tasks' = [tasks EXCEPT ![t] =
                       [IdleTask EXCEPT !.handler = "end-call",
                                        !.pc = "em_get_partner",
                                        !.user = u, !.arg_match = {m},
                                        !.reason = "user_ended"]]
    /\ n_events' = n_events + 1
    /\ UNCHANGED <<webrtc_vars, calc, now, redis_vars, match_sessions, emitted, returned>>

recv_disconnect(t, u) ==
    /\ tasks' = [tasks EXCEPT ![t] =
                    [IdleTask EXCEPT !.handler = "disconnect", !.pc = "dc_rm",
                                     !.user = u]]
    /\ n_events' = n_events + 1
    /\ UNCHANGED <<webrtc_vars, calc, now, redis_vars, match_sessions, emitted, returned>>

recv_leave_queue(t, u) ==
    /\ tasks' = [tasks EXCEPT ![t] =
                    [IdleTask EXCEPT !.handler = "leave-queue", !.pc = "lq_rm",
                                     !.user = u]]
    /\ n_events' = n_events + 1
    /\ UNCHANGED <<webrtc_vars, calc, now, redis_vars, match_sessions, emitted, returned>>

\* The payload's match_id is the client's choice.
recv_chat_message(t, u, m) ==
    /\ tasks' = [tasks EXCEPT ![t] =
                    [IdleTask EXCEPT !.handler = "chat-message",
                                     !.pc = "cm_get_partner",
                                     !.user = u, !.arg_match = {m}]]
    /\ n_events' = n_events + 1
    /\ UNCHANGED <<webrtc_vars, calc, now, redis_vars, match_sessions, emitted, returned>>

\* The payload carries a parseable match_id (lines 613-622 return otherwise).
recv_webrtc_signal(t, u, m) ==
    /\ tasks' = [tasks EXCEPT ![t] =
                    [IdleTask EXCEPT !.handler = "webrtc-signal",
                                     !.pc = "ws_get_partner",
                                     !.user = u, !.arg_match = {m}]]
    /\ n_events' = n_events + 1
    /\ UNCHANGED <<webrtc_vars, calc, now, redis_vars, match_sessions, emitted, returned>>

(***************************************************************************)
(* WEB_RTC events.rs : EventBus, a tokio broadcast channel.                *)
(*                                                                         *)
(* bus.sent is every event the channel has stored, in order; the channel   *)
(* retains the last BusCapacity of them.  bus.rx_cnt is its receiver       *)
(* count.  bus.n_emit counts the calls of emit and numbers the events;     *)
(* bus.log records, per call, the value returned and the receivers alive   *)
(* at the call (history).                                                  *)
(* rx[s] is the receiver of subscriber s: `next` is the position of the    *)
(* next event it reads (0-based), `sub_pos` the position at its            *)
(* subscription, `observed` the results of its recv calls, `out` what the  *)
(* consumer loop passed on (deliveries, SSE items).                        *)
(***************************************************************************)
\* Stands for the 4096 of EventBus::new; with_capacity takes any.
BusCapacity == 2

MaxEmits == 5

Subs == {"webhook", "sse"}

SseSubs == {"sse"}

EventBus_new == [sent |-> <<>>, rx_cnt |-> 0, n_emit |-> 0, log |-> <<>>]

NoReceiver ==
    [state |-> "none", next |-> 0, sub_pos |-> 0, observed |-> <<>>, out |-> <<>>]

Ok(event) == [ok |-> TRUE, event |-> event, lagged |-> 0]

Lagged(n) == [ok |-> FALSE, event |-> 0, lagged |-> n]

\* broadcast::Sender::send: Err with no receiver, the value is dropped;
\* else the value is stored and the receiver count returned.
send(b, event) ==
    IF b.rx_cnt = 0 THEN [ok |-> FALSE, n |-> 0, sent |-> b.sent]
    ELSE [ok |-> TRUE, n |-> b.rx_cnt, sent |-> Append(b.sent, event)]

\* Variant: the count returned is one less than the receiver count.
emit_reporting_one_less(b, event) ==
    LET r == send(b, event)
    IN  [ret |-> IF r.ok THEN r.n - 1 ELSE 0, sent |-> r.sent]

\* EventBus::emit: self.tx.send(event).unwrap_or(0)
emit(b, event) ==
    LET r == send(b, event)
    IN  [ret |-> IF r.ok THEN r.n ELSE 0, sent |-> r.sent]

Receivers == {s \in Subs : rx[s].state = "running"}

bus_emit ==
    /\ bus.n_emit < MaxEmits
    /\ LET event == bus.n_emit + 1
           r == emit(bus, event)
       IN  bus' = [bus EXCEPT !.sent = r.sent, !.n_emit = event,
                              !.log = Append(@, [event |-> event, ret |-> r.ret,
                                                 receivers |-> Receivers,
                                                 kind |-> "quality.degraded",
                                                 room_id |-> 0])]
    /\ UNCHANGED <<rx, room_vars, media_vars, matching_vars>>

\* Variant: a new receiver starts at the oldest retained event.
subscribe_with_replay(b) == Max(Len(b.sent) - BusCapacity, 0)

\* EventBus::subscribe: the new receiver starts at the tail.
subscribe(b) == Len(b.sent)

bus_subscribe(s) ==
    /\ rx[s].state = "none"
    /\ rx' = [rx EXCEPT ![s] = [NoReceiver EXCEPT !.state = "running",
                                                  !.next = subscribe(bus),
                                                  !.sub_pos = subscribe(bus)]]
    /\ bus' = [bus EXCEPT !.rx_cnt = @ + 1]
    /\ UNCHANGED <<room_vars, media_vars, matching_vars>>

\* broadcast::Receiver::recv with an event or a lag to report (it is
\* pending otherwise): a receiver whose next event is no longer retained
\* gets Lagged(missed) and moves to the oldest retained event.
CanRecv(b, r) == r.next < Len(b.sent)

recv(b, r) ==
    LET oldest == Max(Len(b.sent) - BusCapacity, 0)
    IN  IF r.next < oldest
        THEN [result |-> Lagged(oldest - r.next), next |-> oldest]
        ELSE [result |-> Ok(b.sent[r.next + 1]), next |-> r.next + 1]

\* Variant: the consumer loop breaks on Lagged as it does on Closed.
after_lagged_break == "stopped"

\* The Lagged arm of both consumer loops: warn (and yield), loop again.
after_lagged == "running"

\* webhook.rs spawn_webhook_dispatcher, one turn of the loop: the event is
\* handed to the deliveries; a lag is logged.
webhook_dispatcher(s) ==
    /\ s = "webhook"
    /\ rx[s].state = "running"
    /\ CanRecv(bus, rx[s])
    /\ LET r == recv(bus, rx[s])
       IN  rx' = [rx EXCEPT ![s] =
                    [@ EXCEPT !.next = r.next,
                              !.observed = Append(@, r.result),
                              !.out = IF r.result.ok THEN Append(@, r.result) ELSE @,
                              !.state = IF r.result.ok THEN "running"
                                        ELSE after_lagged]]
    /\ bus' = IF rx'[s].state = "running" THEN bus
              ELSE [bus EXCEPT !.rx_cnt = @ - 1]
    /\ UNCHANGED <<room_vars, media_vars, matching_vars>>

\* sse.rs sse_events, one turn of the stream's loop: the event is yielded;
\* a lag is yielded as a _warning item.
sse_events(s) ==
    /\ s \in SseSubs
    /\ rx[s].state = "running"
    /\ CanRecv(bus, rx[s])
    /\ LET r == recv(bus, rx[s])
       IN  rx' = [rx EXCEPT ![s] =
                    [@ EXCEPT !.next = r.next,
                              !.observed = Append(@, r.result),
                              !.out = Append(@, r.result),
                              !.state = IF r.result.ok THEN "running"
                                        ELSE after_lagged]]
    /\ bus' = IF rx'[s].state = "running" THEN bus
              ELSE [bus EXCEPT !.rx_cnt = @ - 1]
    /\ UNCHANGED <<room_vars, media_vars, matching_vars>>

\* The SSE client goes away: the stream and its receiver are dropped.
sse_disconnect(s) ==
    /\ s \in SseSubs
    /\ rx[s].state = "running"
    /\ rx' = [rx EXCEPT ![s].state = "dropped"]
    /\ bus' = [bus EXCEPT !.rx_cnt = @ - 1]
    /\ UNCHANGED <<room_vars, media_vars, matching_vars>>

InitBus ==
    /\ bus = EventBus_new
    /\ rx = [s \in Subs |-> NoReceiver]

(***************************************************************************)
(* WEB_RTC room.rs, sfu.rs, api.rs : rooms, publishers, peer connections.  *)
(*                                                                         *)
(* rooms      the registry AppState.rooms: the ids it holds                *)
(* room       the Room objects by id (an Arc outlives the registry entry): *)
(*            room_type, max_publishers and the publishers map, a set of   *)
(*            entries [peer_id, conn, screen] with peer_id as the key      *)
(* peer_conn  the RTCPeerConnection of each media request: its state, and  *)
(*            the invocations of its state-change callback that are queued *)
(*            or running (callback = "idle", or the step it is at)         *)
(* http       the media requests (publish, call, conference) in flight or  *)
(*            answered; request q carries the token subject http[q].sub    *)
(* del        the DELETE requests                                          *)
(***************************************************************************)
MaxRooms == 1

MaxConns == 3

MaxDeletes == 2

RoomIds == 1 .. MaxRooms

Conns == 1 .. MaxConns

Deletes == 1 .. MaxDeletes

RoomTypes == {"Broadcast", "Call", "Conference"}

\* Room::new
max_publishers(room_type) ==
    CASE room_type = "Broadcast" -> 1
      [] room_type = "Call" -> 2
      [] room_type = "Conference" -> 50

NoRoom == [room_type |-> "none", max_publishers |-> 0, publishers |-> {}]

Room_new(room_type) ==
    [room_type |-> room_type, max_publishers |-> max_publishers(room_type),
     publishers |-> {}]

\* HashMap::insert: an entry under the same key is replaced.
insert(pubs, entry) == {p \in pubs : p.peer_id # entry.peer_id} \cup {entry}

can_publish(r) == Cardinality(r.publishers) < r.max_publishers

\* Variant: the insertion without the check under the write lock.
add_publisher_unchecked(r, entry) ==
    [ok |-> TRUE, publishers |-> insert(r.publishers, entry)]

add_publisher(r, entry) ==
    IF Cardinality(r.publishers) >= r.max_publishers
    THEN [ok |-> FALSE, publishers |-> r.publishers]
    ELSE [ok |-> TRUE, publishers |-> insert(r.publishers, entry)]

remove_publisher(r, peer_id) == {p \in r.publishers : p.peer_id # peer_id}

publisher_count(r) == Cardinality(r.publishers)

\* format!("{peer_id}-screen") for a screen share, the subject otherwise.
effective_peer_id(sub, is_screen) == <<sub, IF is_screen THEN "-screen" ELSE "">>

NonScreen(r) == {p \in r.publishers : ~ p.screen}

\* A request: sub is the subject of its token (claims.sub), 0 where the
\* handler does not use it.
NoRequest ==
    [kind |-> "none", pc |-> "idle", room_id |-> 0, screen |-> FALSE,
     sub |-> 0, result |-> "", non_screen_seen |-> 0]

NoConn == [state |-> "none", queued |-> 0, callback |-> "idle", removed |-> {}]

NoDelete ==
    [pc |-> "idle", room_id |-> 0, publishers |-> {}, to_close |-> {}, result |-> ""]

TerminalStates == {"failed", "disconnected", "closed"}

\* The handlers that add a publisher, and those that only subscribe.
PublishKinds == {"publish", "call", "conference"}
SubscribeKinds == {"subscribe", "conference_subscribe"}

\* An AtomicU64 as four 16-bit limbs, the least significant first.
LIMB == 65536

AtomicU64_new(n) == <<n % LIMB, (n \div LIMB) % LIMB, 0, 0>>

\* The limbs a carry or a borrow runs through: those below the first limb
\* that differs from `full`; 5 when every limb equals it.
FirstNot(c, full) ==
    IF \A k \in 1 .. 4 : c[k] = full THEN 5
    ELSE CHOOSE i \in 1 .. 4 : c[i] # full /\ \A k \in 1 .. (i - 1) : c[k] = full

\* fetch_add(1, Relaxed) and fetch_sub(1, Relaxed): the new value, wrapping
\* around at 2^64 and below 0.
fetch_add(c) ==
    LET i == FirstNot(c, LIMB - 1)
    IN  [k \in 1 .. 4 |-> IF k < i THEN 0 ELSE IF k = i THEN c[k] + 1 ELSE c[k]]

fetch_sub(c) ==
    LET i == FirstNot(c, 0)
    IN  [k \in 1 .. 4 |-> IF k < i THEN LIMB - 1 ELSE IF k = i THEN c[k] - 1 ELSE c[k]]

Labels == {"video", "audio", "screen"}

\* The broadcast senders of a Publisher and the kinds of a remote track.
Senders == {"video_tx", "audio_tx", "screen_tx"}
TrackKinds == {"video", "audio"}

\* What a publisher's connection feeds: the read loops its on_track handler
\* spawned, in the order of the calls, each with the kind of its track, the
\* sender it holds and whether it still runs; and, by sender, the kinds of
\* the packets sent on it.
NoMedia == [loops |-> <<>>, tx |-> [c \in Senders |-> {}]]

\* A task spawn_fanout_task spawned: where it is in its loop, why it left,
\* whether the token had fired when it was spawned, and the sender (of
\* which publisher's connection) its receiver was subscribed to.
NoTask == [state |-> "none", exit |-> "", after_cancel |-> FALSE,
           rx |-> [conn |-> 0, tx |-> ""]]

\* What a subscriber's handler holds: the publisher it reads from, the one
\* it reads the screen from (0 for none) and whether that is the target's
\* own screen channel, the CancellationToken, the fan-out tasks; fetch_adds
\* and fetch_subs count what it did to subscriber_count.
NoSubscriber ==
    [target |-> 0, screen_source |-> 0, has_inline |-> FALSE, cancel |-> FALSE,
     fanout |-> [l \in Labels |-> NoTask], fetch_adds |-> 0, fetch_subs |-> 0]

\* The publisher entry request q inserts.
Entry(q) ==
    [peer_id |-> effective_peer_id(http[q].sub, http[q].screen), conn |-> q,
     screen |-> http[q].screen]

Answer(q, result) == [http EXCEPT ![q].pc = "done", ![q].result = result]

\* EventBus::emit from a handler of the API.
EmitOnBus(kind, room_id) ==
    LET event == bus.n_emit + 1
        r == emit(bus, event)
    IN  [bus EXCEPT !.sent = r.sent, !.n_emit = event,
                    !.log = Append(@, [event |-> event, ret |-> r.ret,
                                       receivers |-> Receivers,
                                       kind |-> kind, room_id |-> room_id])]

\* api.rs create_room: a fresh id, the room inserted, room.created emitted.
create_room(id, room_type) ==
    /\ id \in RoomIds
    /\ room[id] = NoRoom
    /\ \A k \in 1 .. (id - 1) : room[k] # NoRoom
    /\ room' = [room EXCEPT ![id] = Room_new(room_type)]
    /\ rooms' = rooms \cup {id}
    /\ bus' = EmitOnBus("room.created", id)
    /\ UNCHANGED <<rx, peer_conn, http, del, media_vars, matching_vars>>

\* sfu_publish, sfu_call, sfu_conference up to the creation of the peer
\* connection: the room lookup, the room type check of call and conference,
\* the can_publish check of a camera publish and of conference. The peer id
\* is the subject of the token.
media_request_sub(q, sub, kind, room_id, is_screen) ==
    /\ http[q] = NoRequest
    /\ \A k \in 1 .. (q - 1) : http[k] # NoRequest
    /\ kind \in {"publish", "call", "conference"}
    /\ is_screen => kind = "publish"
    /\ LET s == [NoRequest EXCEPT !.kind = kind, !.room_id = room_id,
                                  !.screen = is_screen, !.sub = sub]
           r == room[room_id]
           result ==
              IF room_id \notin rooms THEN "room_not_found"
              ELSE IF kind = "call" /\ r.room_type # "Call" THEN "room_type_mismatch"
              ELSE IF kind = "conference" /\ r.room_type # "Conference"
                   THEN "room_type_mismatch"
              ELSE IF kind = "publish" /\ ~ is_screen /\ ~ can_publish(r) THEN "room_full"
              ELSE IF kind = "conference" /\ ~ can_publish(r) THEN "room_full"
              ELSE ""
       IN  http' = [http EXCEPT ![q] =
                      IF result = "" THEN [s EXCEPT !.pc = "create_pc"]
                      ELSE [s EXCEPT !.pc = "done", !.result = result,
                                     !.non_screen_seen =
                                         Cardinality(NonScreen(r))]]
    /\ UNCHANGED <<bus, rx, rooms, room, peer_conn, del, media_vars, matching_vars>>

\* The request of a client whose token carries a subject of its own.
media_request(q, kind, room_id, is_screen) ==
    media_request_sub(q, q, kind, room_id, is_screen)

\* create_peer_connection, the Publisher, the state-change callback
\* registered; the SDP exchange starts.
create_peer_connection(q) ==
    /\ http[q].pc = "create_pc"
    /\ peer_conn' = [peer_conn EXCEPT ![q] = [NoConn EXCEPT !.state = "new"]]
    /\ http' = [http EXCEPT ![q].pc = "exchange_sdp"]
    /\ UNCHANGED <<bus, rx, rooms, room, del, media_vars, matching_vars>>

\* Step 9 of sfu_publish and the last step of sfu_call and sfu_conference,
\* after exchange_sdp returned the answer: a screen share is inserted
\* directly, every other publisher through add_publisher.
add_to_room(q) ==
    /\ http[q].pc = "exchange_sdp"
    /\ http[q].kind \in PublishKinds
    /\ LET id == http[q].room_id
           r == room[id]
       IN  IF http[q].screen
           THEN /\ room' = [room EXCEPT ![id].publishers = insert(@, Entry(q))]
                /\ http' = Answer(q, "ok")
                /\ UNCHANGED sub_vars
           ELSE LET a == add_publisher(r, Entry(q))
                    bump == a.ok /\ http[q].kind = "conference"
                IN  /\ room' = [room EXCEPT ![id].publishers = a.publishers]
                    /\ http' = [Answer(q, IF a.ok THEN "ok" ELSE "room_full")
                                  EXCEPT ![q].non_screen_seen =
                                             Cardinality(NonScreen(r))]
                    /\ subscriber_count' =
                          IF bump THEN [subscriber_count EXCEPT ![id] = fetch_add(@)]
                          ELSE subscriber_count
                    /\ subscriber' =
                          IF bump THEN [subscriber EXCEPT ![q].fetch_adds = @ + 1]
                          ELSE subscriber
    /\ UNCHANGED <<bus, rx, rooms, peer_conn, del, media, matching_vars>>

\* exchange_sdp returns an error: the request ends, nothing is inserted.
exchange_sdp_fails(q) ==
    /\ http[q].pc = "exchange_sdp"
    /\ http' = Answer(q, "error")
    /\ UNCHANGED <<bus, rx, rooms, room, peer_conn, del, media_vars, matching_vars>>

\* The transitions of RTCPeerConnectionState that the transport makes on
\* its own; close() is the only way to Closed.
Transitions ==
    {<<"new", "connecting">>, <<"connecting", "connected">>,
     <<"connecting", "failed">>, <<"connected", "disconnected">>,
     <<"disconnected", "connected">>, <<"disconnected", "failed">>}

Queue(conn, to) ==
    [conn EXCEPT !.state = to,
                 !.queued = IF to \in TerminalStates THEN @ + 1 ELSE @]

\* The connection changes state once the descriptions are set, that is
\* from the SDP exchange on; a terminal state queues the callback.
state_change(q, to) ==
    /\ http[q].pc \in {"exchange_sdp", "write_rtcp", "done"}
    /\ <<peer_conn[q].state, to>> \in Transitions
    /\ peer_conn[q].queued = 0
    /\ peer_conn[q].callback = "idle"
    /\ peer_conn' = [peer_conn EXCEPT ![q] = Queue(@, to)]
    /\ UNCHANGED <<bus, rx, rooms, room, http, del, media_vars, matching_vars>>

callback_remove(r, peer_id) == remove_publisher(r, peer_id)

\* on_peer_connection_state_change for Failed, Disconnected, Closed:
\* remove_publisher, then the removal of the empty room from the registry
\* (sfu_publish: of a Broadcast room only).
on_peer_connection_state_change(q) ==
    LET id == http[q].room_id IN
    \/ /\ peer_conn[q].callback = "idle"
       /\ peer_conn[q].queued > 0
       /\ http[q].kind \in PublishKinds
       /\ room' = [room EXCEPT ![id].publishers =
                       callback_remove(room[id], Entry(q).peer_id)]
       /\ peer_conn' = [peer_conn EXCEPT
             ![q].queued = @ - 1,
             ![q].callback = "publisher_count",
             ![q].removed = {p \in room[id].publishers :
                               p.peer_id = Entry(q).peer_id}]
       /\ IF http[q].kind = "conference"
          THEN /\ subscriber_count' = [subscriber_count EXCEPT ![id] = fetch_sub(@)]
               /\ subscriber' = [subscriber EXCEPT ![q].cancel = TRUE,
                                                   ![q].fetch_subs = @ + 1]
          ELSE UNCHANGED sub_vars
       /\ UNCHANGED <<bus, rx, rooms, http, del, media, matching_vars>>
    \/ /\ peer_conn[q].callback = "publisher_count"
       /\ rooms' = IF /\ publisher_count(room[id]) = 0
                      /\ (http[q].kind = "publish" => room[id].room_type = "Broadcast")
                   THEN rooms \ {id} ELSE rooms
       /\ peer_conn' = [peer_conn EXCEPT ![q].callback = "idle", ![q].removed = {}]
       /\ UNCHANGED <<bus, rx, room, http, del, media_vars, matching_vars>>

\* api.rs delete_room.
recv_delete_room(d, room_id) ==
    /\ del[d] = NoDelete
    /\ \A k \in 1 .. (d - 1) : del[k] # NoDelete
    /\ del' = [del EXCEPT ![d] = [NoDelete EXCEPT !.pc = "remove", !.room_id = room_id]]
    /\ UNCHANGED <<bus, rx, rooms, room, peer_conn, http, media_vars, matching_vars>>

\* Variant: the entry is looked up but left in the registry.
registry_take_late(registry, id) == registry

\* rooms.remove(&room_id) under the write lock.
registry_take(registry, id) == registry \ {id}

delete_room(d) ==
    LET id == del[d].room_id IN
    \/ /\ del[d].pc = "remove"
       /\ rooms' = registry_take(rooms, id)
       /\ del' = [del EXCEPT ![d] =
                     IF id \in rooms THEN [@ EXCEPT !.pc = "get_publishers"]
                     ELSE [@ EXCEPT !.pc = "done", !.result = "room_not_found"]]
       /\ UNCHANGED <<bus, rx, room, peer_conn, http, media_vars, matching_vars>>
    \/ /\ del[d].pc = "get_publishers"
       /\ del' = [del EXCEPT ![d].pc = "close",
                             ![d].publishers = room[id].publishers,
                             ![d].to_close = room[id].publishers]
       /\ UNCHANGED <<bus, rx, rooms, room, peer_conn, http, media_vars, matching_vars>>
    \/ /\ del[d].pc = "close"
       /\ del[d].to_close # {}
       /\ \E p \in del[d].to_close :
             /\ peer_conn' = [peer_conn EXCEPT ![p.conn] =
                                 IF @.state = "closed" THEN @ ELSE Queue(@, "closed")]
             /\ del' = [del EXCEPT ![d].to_close = @ \ {p}]
       /\ UNCHANGED <<bus, rx, rooms, room, http, media_vars, matching_vars>>
    \/ /\ del[d].pc = "close"
       /\ del[d].to_close = {}
       /\ bus' = EmitOnBus("room.deleted", id)
       /\ del' = [del EXCEPT ![d].pc = "done", ![d].result = "no_content"]
       /\ UNCHANGED <<rx, rooms, room, peer_conn, http, media_vars, matching_vars>>

InitRooms ==
    /\ rooms = {}
    /\ room = [id \in RoomIds |-> NoRoom]
    /\ peer_conn = [q \in Conns |-> NoConn]
    /\ http = [q \in Conns |-> NoRequest]
    /\ del = [d \in Deletes |-> NoDelete]
    /\ subscriber_count = [id \in RoomIds |-> AtomicU64_new(0)]
    /\ subscriber = [q \in Conns |-> NoSubscriber]
    /\ media = [q \in Conns |-> NoMedia]

(***************************************************************************)
(* WEB_RTC sfu.rs : subscribers and their fan-out tasks.                   *)
(*                                                                         *)
(* subscriber_count  Room.subscriber_count by room id, an AtomicU64        *)
(* subscriber        by connection: what sfu_subscribe and                 *)
(*                   sfu_conference_subscribe hold for the peer connection *)
(*                   they create (see NoSubscriber)                        *)
(*                                                                         *)
(* A subscriber has no entry in the room. Its request reuses http and      *)
(* peer_conn: the room lookup and the choice of the publisher, the peer    *)
(* connection with its state-change callback, the SDP exchange, the        *)
(* fan-out tasks, the write of the PLI, the increment of the counter.      *)
(***************************************************************************)
\* The publishers sfu_subscribe may pick: the first entry that is no screen
\* share, else the first entry, in the order the HashMap yields them.
SubscribeTargets(r) ==
    IF NonScreen(r) # {} THEN NonScreen(r) ELSE r.publishers

\* Publisher::has_screen: screen_ssrc is set, which the on_track handler does
\* for the video track of a publisher set up with is_screen.
has_screen(conn) ==
    \E i \in DOMAIN media[conn].loops : media[conn].loops[i].tx = "screen_tx"

\* The source of the screen track: the target itself when it carries a
\* screen share, else a "-screen" publisher of the room, else none.
ScreenSources(r, target) ==
    IF has_screen(target.conn) THEN {target.conn}
    ELSE IF r.publishers \ NonScreen(r) # {}
         THEN {p.conn : p \in r.publishers \ NonScreen(r)}
         ELSE {0}

\* sfu_subscribe and sfu_conference_subscribe up to the peer connection: the
\* room lookup, the publisher to read from (of sfu_conference_subscribe the
\* one the request names).
subscribe_request(q, kind, room_id, target_peer) ==
    /\ http[q] = NoRequest
    /\ \A k \in 1 .. (q - 1) : http[k] # NoRequest
    /\ kind \in SubscribeKinds
    /\ LET s == [NoRequest EXCEPT !.kind = kind, !.room_id = room_id]
           r == room[room_id]
           found == IF kind = "subscribe" THEN SubscribeTargets(r)
                    ELSE {p \in r.publishers : p.conn = target_peer}
           fail(result) ==
               /\ http' = [http EXCEPT ![q] = [s EXCEPT !.pc = "done",
                                                        !.result = result]]
               /\ UNCHANGED subscriber
       IN  IF room_id \notin rooms THEN fail("room_not_found")
           ELSE IF found = {}
                THEN fail(IF kind = "subscribe" THEN "no_publisher" ELSE "not_found")
           ELSE \E p \in found :
                  \E sc \in IF kind = "subscribe" THEN ScreenSources(r, p) ELSE {0} :
                     /\ http' = [http EXCEPT ![q] = [s EXCEPT !.pc = "create_pc"]]
                     /\ subscriber' = [subscriber EXCEPT
                           ![q].target = p.conn,
                           ![q].screen_source = sc,
                           ![q].has_inline = has_screen(p.conn)]
    /\ UNCHANGED <<bus, rx, rooms, room, peer_conn, del, subscriber_count,
                   media, matching_vars>>

\* The labels of the tasks a subscriber spawns.
SpawnedLabels(s) ==
    IF s.screen_source # 0 THEN Labels ELSE Labels \ {"screen"}

\* The sender a fan-out task's receiver is subscribed to: video_tx and
\* audio_tx of the target; for the screen track screen_tx of the target when
\* it has an inline screen share, else video_tx of the "-screen" publisher.
fanout_rx(s, l) ==
    IF l = "video" THEN [conn |-> s.target, tx |-> "video_tx"]
    ELSE IF l = "audio" THEN [conn |-> s.target, tx |-> "audio_tx"]
    ELSE IF s.has_inline THEN [conn |-> s.target, tx |-> "screen_tx"]
    ELSE [conn |-> s.screen_source, tx |-> "video_tx"]

\* exchange_sdp returned the answer: the receivers are subscribed and the
\* fan-out tasks spawned; the handler goes on to write the PLI.
spawn_fanout_task(q) ==
    /\ http[q].pc = "exchange_sdp"
    /\ http[q].kind \in SubscribeKinds
    /\ subscriber' = [subscriber EXCEPT ![q].fanout =
                         [l \in Labels |->
                             IF l \in SpawnedLabels(subscriber[q])
                             THEN [NoTask EXCEPT !.state = "select",
                                                 !.after_cancel = subscriber[q].cancel,
                                                 !.rx = fanout_rx(subscriber[q], l)]
                             ELSE NoTask]]
    /\ http' = [http EXCEPT ![q].pc = "write_rtcp"]
    /\ UNCHANGED <<bus, rx, rooms, room, peer_conn, del, subscriber_count,
                   media, matching_vars>>

\* Step 12 of sfu_subscribe, the last step of sfu_conference_subscribe,
\* after the await of write_rtcp.
bump_subscriber_count(q) ==
    /\ http[q].pc = "write_rtcp"
    /\ subscriber_count' = [subscriber_count EXCEPT ![http[q].room_id] = fetch_add(@)]
    /\ subscriber' = [subscriber EXCEPT ![q].fetch_adds = @ + 1]
    /\ http' = Answer(q, "ok")
    /\ UNCHANGED <<bus, rx, rooms, room, peer_conn, del, media, matching_vars>>

\* The state-change callback of a subscriber for Failed, Disconnected,
\* Closed: the token is cancelled and the counter decremented.
subscriber_state_change(q) ==
    /\ http[q].kind \in SubscribeKinds
    /\ peer_conn[q].queued > 0
    /\ peer_conn' = [peer_conn EXCEPT ![q].queued = @ - 1]
    /\ subscriber' = [subscriber EXCEPT ![q].cancel = TRUE,
                                        ![q].fetch_subs = @ + 1]
    /\ subscriber_count' = [subscriber_count EXCEPT ![http[q].room_id] = fetch_sub(@)]
    /\ UNCHANGED <<bus, rx, rooms, room, http, del, media, matching_vars>>

\* Variant: one writer shared by the subscribers, so that a break ends the
\* tasks of every subscriber for that track.
break_shared(q, l, why) ==
    [s \in Conns |->
        IF subscriber[s].fanout[l].state = "none" THEN subscriber[s]
        ELSE [subscriber[s] EXCEPT !.fanout[l].state = "done",
                                   !.fanout[l].exit = why]]

\* break: the task leaves its loop and ends; its receiver and its track are
\* dropped with it.
Exit(q, l, why) ==
    [subscriber EXCEPT ![q].fanout[l].state = "done", ![q].fanout[l].exit = why]

\* Variant: a branch that is never ready.
cancelled_never(token) == FALSE

\* cancel.cancelled(): ready once the token is cancelled, and from then on.
cancelled(token) == token

\* What holds the Arc<Publisher> of connection p: the publishers map of its
\* room, the handler of its request until it returns, and the closure that
\* setup_publisher_on_track stores in the peer connection. The Publisher
\* owns that peer connection (its pc field), so the closure lives as long as
\* the Publisher it holds. (The task of spawn_pli_sender holds one more.)
PublisherHolders(p) ==
    IF http[p].kind \notin PublishKinds \/ peer_conn[p].state = "none" THEN {}
    ELSE {"on_track"}
         \cup (IF http[p].pc # "done" THEN {"handler"} ELSE {})
         \cup (IF Entry(p) \in room[http[p].room_id].publishers
               THEN {"publishers"} ELSE {})

\* Every Sender of channel tx of connection p is dropped: the field of the
\* Publisher and the clones the read loops hold.
SendersGone(p, tx) ==
    /\ PublisherHolders(p) = {}
    /\ \A i \in DOMAIN media[p].loops :
          media[p].loops[i].tx = tx => ~ media[p].loops[i].running

\* One turn of the select! of a fan-out task: the token is cancelled, or
\* recv yields a packet, Lagged, or Closed once every sender of the channel
\* is dropped.
fanout_select(q, l, branch) ==
    /\ subscriber[q].fanout[l].state = "select"
    /\ branch = "cancelled" => cancelled(subscriber[q].cancel)
    /\ branch = "Closed" => SendersGone(subscriber[q].fanout[l].rx.conn,
                                        subscriber[q].fanout[l].rx.tx)
    /\ subscriber' =
          CASE branch = "cancelled" -> Exit(q, l, "cancelled")
            [] branch = "Ok" ->
                 [subscriber EXCEPT ![q].fanout[l].state = "write_rtp"]
            [] branch = "Lagged" -> subscriber
            [] OTHER -> Exit(q, l, "closed")
    /\ UNCHANGED <<bus, rx, room_vars, subscriber_count, media,
                   matching_vars>>

\* track.write_rtp(&pkt).await returns: the loop goes on, or breaks on Err.
fanout_write_rtp(q, l, ok) ==
    /\ subscriber[q].fanout[l].state = "write_rtp"
    /\ subscriber' = IF ok THEN [subscriber EXCEPT ![q].fanout[l].state = "select"]
                     ELSE Exit(q, l, "write_error")
    /\ UNCHANGED <<bus, rx, room_vars, subscriber_count, media,
                   matching_vars>>

(***************************************************************************)
(* WEB_RTC sfu.rs : the on_track handler of a publisher.                   *)
(*                                                                         *)
(* media  by connection: the read loops and the senders (see NoMedia)      *)
(***************************************************************************)
MaxTracks == 2

\* Variant: every video track feeds video_tx.
track_sender_camera_only(kind, is_screen) ==
    IF kind = "video" THEN "video_tx" ELSE "audio_tx"

\* The sender the loop of a track clones: screen_tx for the video of a
\* screen share, video_tx for any other video, audio_tx otherwise.
track_sender(kind, is_screen) ==
    IF kind = "video" THEN (IF is_screen THEN "screen_tx" ELSE "video_tx")
    ELSE "audio_tx"

\* The is_screen the handler of connection q was set up with: the screen
\* flag of sfu_publish, false in sfu_call and sfu_conference.
on_track_is_screen(q) == http[q].kind = "publish" /\ http[q].screen

\* The on_track handler runs for a remote track of a publisher: a read loop
\* is spawned for it. Remote tracks exist from set_remote_description on.
on_track(q, kind) ==
    /\ http[q].kind \in PublishKinds
    /\ http[q].pc \in {"exchange_sdp", "done"}
    /\ peer_conn[q].state \in {"new", "connecting", "connected", "disconnected"}
    /\ Len(media[q].loops) < MaxTracks
    /\ media' = [media EXCEPT ![q].loops =
                     Append(@, [kind |-> kind, running |-> TRUE,
                                tx |-> track_sender(kind, on_track_is_screen(q))])]
    /\ UNCHANGED <<bus, rx, room_vars, sub_vars, matching_vars>>

\* One turn of a read loop: track.read_rtp() yields a packet, which is sent
\* on the loop's sender, or an error, which ends the loop.
read_rtp(q, i, ok) ==
    /\ i \in DOMAIN media[q].loops
    /\ media[q].loops[i].running
    /\ LET loop == media[q].loops[i]
       IN  media' = IF ok THEN [media EXCEPT ![q].tx[loop.tx] = @ \cup {loop.kind}]
                    ELSE [media EXCEPT ![q].loops[i].running = FALSE]
    /\ UNCHANGED <<bus, rx, room_vars, sub_vars, matching_vars>>

(***************************************************************************)
(* Time                                                                    *)
(***************************************************************************)
TICK_MS == 500

\* Utc::now() is later by `step` at the next read; expiries fall due.
Tick(step, max_now) ==
    /\ now + step <= max_now
    /\ now' = now + step
    /\ UNCHANGED <<store_vars, calc>>

(***************************************************************************)
(* Initial state: empty Redis and database, no handler in flight.          *)
(***************************************************************************)
InitStore ==
    /\ now = 0
    /\ queue = {}
    /\ lock = [u \in Users |-> 0]
    /\ cooldown = [k \in PairKeys |-> 0]
    /\ pair = {}
    /\ user_match = [u \in Users |-> {}]
    /\ pair_history = [k \in PairKeys |-> {}]
    /\ session_ctr = {}
    /\ match_sessions = <<>>
    /\ tasks = [t \in Slots |-> IdleTask]
    /\ emitted = <<>>
    /\ returned = {}
    /\ n_events = 0
    /\ InitBus
    /\ InitRooms

Init == InitStore /\ calc = <<>>

(***************************************************************************)
(* Scenarios.  Each specification lets a few clients send the events of    *)
(* one scenario; the handlers interleave at every await.                   *)
(***************************************************************************)
\* User u has sent the event `handler` (its handler runs or has returned).
Sent(u, handler) ==
    \/ \E t \in Slots : tasks[t].user = u /\ tasks[t].handler = handler
    \/ \E r \in returned : r.user = u /\ r.handler = handler

(***************************************************************************)
(* SpecJoin: every user sends join-queue once, all within one phase        *)
(* (the clock does not advance).                                           *)
(***************************************************************************)
NextJoin ==
    \/ \E t \in Slots, u \in Users :
          /\ FreeSlot(t, u, 1)
          /\ ~ Sent(u, "join-queue")
          /\ \E payload \in Payloads(u) : recv_join_queue(t, u, payload)
    \/ \E t \in Slots : on_join_queue(t)
    \/ \E t \in Slots : try_match(t)
    \/ \E t \in Slots : try_match_inner(t)

SpecJoin == Init /\ [][NextJoin]_vars

(***************************************************************************)
(* SpecDuo: a few users who join, skip to the next match and end calls,    *)
(* one handler per user at a time; all within one phase.                   *)
(***************************************************************************)
DuoUsers == {1, 2}
DuoMaxEvents == 4

NextDuo ==
    \/ \E t \in Slots, u \in DuoUsers :
          /\ FreeSlot(t, u, 1)
          /\ n_events < DuoMaxEvents
          /\ \/ recv_join_queue(t, u, OpenPayload(u))
             \/ recv_next_match(t, u, OpenPayload(u))
             \/ \E m \in ToldMatches(u) : recv_end_call(t, u, m)
    \/ \E t \in Slots : on_join_queue(t)
    \/ \E t \in Slots : on_next_match(t)
    \/ \E t \in Slots : try_match(t)
    \/ \E t \in Slots : try_match_inner(t)
    \/ \E t \in Slots : end_match_session(t)
    \/ \E t \in Slots : record_match_end(t)
    \/ \E t \in Slots : remove_active_pair(t)

SpecDuo == Init /\ [][NextDuo]_vars

(***************************************************************************)
(* SpecLock: one user sends join-queue and next-match in quick succession  *)
(* while the clock runs past the expiry of the lock.                       *)
(***************************************************************************)
NextLock ==
    \/ \E t \in Slots :
          /\ FreeSlot(t, 1, MaxPerUser)
          /\ \/ ~ Sent(1, "join-queue") /\ recv_join_queue(t, 1, OpenPayload(1))
             \/ ~ Sent(1, "next-match") /\ recv_next_match(t, 1, OpenPayload(1))
    \/ \E t \in Slots : on_join_queue(t)
    \/ \E t \in Slots : on_next_match(t)
    \/ \E t \in Slots : try_match(t)
    \/ \E t \in Slots : try_match_inner(t)
    \/ Tick(TICK_MS, LOCK_TTL_MS + TICK_MS)

SpecLock == Init /\ [][NextLock]_vars

(***************************************************************************)
(* SpecCooldown: users 1 and 3 join, are matched, leave the match with     *)
(* next-match and queue again, while the clock passes the expiry of the    *)
(* cooldown.  A client sends its event when no handler is running.         *)
(***************************************************************************)
CooldownUsers == {1, 3}
CooldownMaxEvents == 4

NextCooldown ==
    \/ \E t \in Slots, u \in CooldownUsers :
          /\ FreeSlot(t, u, 1)
          /\ \A other \in Slots : Idle(other)
          /\ n_events < CooldownMaxEvents
          /\ \/ ~ Sent(u, "join-queue") /\ recv_join_queue(t, u, OpenPayload(u))
             \/ Sent(u, "join-queue") /\ recv_next_match(t, u, OpenPayload(u))
    \/ \E t \in Slots : on_join_queue(t)
    \/ \E t \in Slots : on_next_match(t)
    \/ \E t \in Slots : try_match(t)
    \/ \E t \in Slots : try_match_inner(t)
    \/ \E t \in Slots : end_match_session(t)
    \/ \E t \in Slots : record_match_end(t)
    \/ \E t \in Slots : remove_active_pair(t)
    \/ Tick(COOLDOWN_TTL_MS, 2 * COOLDOWN_TTL_MS)

SpecCooldown == Init /\ [][NextCooldown]_vars

(***************************************************************************)
(* SpecLive: user 1 (FR, filtering on country FR) and user 2 (JP) each     *)
(* send join-queue once, one after the other, and nothing more; the clock  *)
(* runs into the Normal and Relaxed phases.  Every handler that can take   *)
(* a step eventually does, and time does not stop short of the horizon.    *)
(***************************************************************************)
LiveMaxNow == 1000

LivePayload(u) == IF u = 1 THEN Payload(1, {"FR"}) ELSE OpenPayload(u)

HandlerStepLive ==
    \E t \in Slots : on_join_queue(t) \/ try_match(t) \/ try_match_inner(t)

NextLive ==
    \/ \E t \in Slots, u \in {1, 2} :
          /\ FreeSlot(t, u, 1)
          /\ \A other \in Slots : Idle(other)
          /\ ~ Sent(u, "join-queue")
          /\ recv_join_queue(t, u, LivePayload(u))
    \/ \E t \in Slots : on_join_queue(t)
    \/ \E t \in Slots : try_match(t)
    \/ \E t \in Slots : try_match_inner(t)
    \/ Tick(TICK_MS, LiveMaxNow)

SpecLive ==
    /\ Init
    /\ [][NextLive]_vars
    /\ WF_vars(HandlerStepLive)
    /\ WF_vars(Tick(TICK_MS, LiveMaxNow))

(***************************************************************************)
(* SpecEnd: users 1 and 3 join and are matched; then each may send         *)
(* end-call, and a client that has sent it may drop its connection while   *)
(* the handler still runs.                                                 *)
(***************************************************************************)
EndUsers == {1, 3}
EndMaxEvents == 4

NextEnd ==
    \/ \E t \in Slots, u \in EndUsers :
          /\ FreeSlot(t, u, 1)
          /\ ~ Sent(u, "join-queue")
          /\ recv_join_queue(t, u, OpenPayload(u))
    \/ \E t \in Slots, u \in EndUsers :
          /\ FreeSlot(t, u, MaxPerUser)
          /\ n_events < EndMaxEvents
          /\ ~ Sent(u, "end-call")
          /\ \E m \in ToldMatches(u) : recv_end_call(t, u, m)
    \/ \E t \in Slots, u \in EndUsers :
          /\ FreeSlot(t, u, MaxPerUser)
          /\ n_events < EndMaxEvents
          /\ Sent(u, "end-call")
          /\ ~ Sent(u, "disconnect")
          /\ recv_disconnect(t, u)
    \/ \E t \in Slots : on_join_queue(t)
    \/ \E t \in Slots : try_match(t)
    \/ \E t \in Slots : try_match_inner(t)
    \/ \E t \in Slots : end_match_session(t)
    \/ \E t \in Slots : record_match_end(t)
    \/ \E t \in Slots : remove_active_pair(t)
    \/ \E t \in Slots : on_disconnect(t)

SpecEnd == Init /\ [][NextEnd]_vars

(***************************************************************************)
(* SpecDisconnect: users 1 and 3 join; a user whose join-queue handler     *)
(* has returned may drop its connection while the other user's match       *)
(* attempt is running.  A disconnected client sends nothing more.          *)
(***************************************************************************)
DisconnectUsers == {1, 3}

NextDisconnect ==
    \/ \E t \in Slots, u \in DisconnectUsers :
          /\ FreeSlot(t, u, 1)
          /\ ~ Sent(u, "join-queue")
          /\ recv_join_queue(t, u, OpenPayload(u))
    \/ \E t \in Slots, u \in DisconnectUsers :
          /\ FreeSlot(t, u, 1)
          /\ Sent(u, "join-queue")
          /\ ~ Sent(u, "disconnect")
          /\ recv_disconnect(t, u)
    \/ \E t \in Slots : on_join_queue(t)
    \/ \E t \in Slots : try_match(t)
    \/ \E t \in Slots : try_match_inner(t)
    \/ \E t \in Slots : on_disconnect(t)
    \/ \E t \in Slots : end_match_session(t)
    \/ \E t \in Slots : record_match_end(t)
    \/ \E t \in Slots : remove_active_pair(t)

SpecDisconnect == Init /\ [][NextDisconnect]_vars

(***************************************************************************)
(* SpecRelay: users 1 and 3 join one after the other and are matched;      *)
(* every user, user 2 who never joined included, may send one chat-message *)
(* and one webrtc-signal naming any match id, while user 3 may end the     *)
(* call.                                                                   *)
(***************************************************************************)
RelayUsers == {1, 2, 3}

RelayMembers == {1, 3}

RelayMatchIds == {1, 2}

RelayMaxEvents == 5

NextRelay ==
    \/ \E t \in Slots, u \in RelayMembers :
          /\ \A x \in Slots : Idle(x)
          /\ FreeSlot(t, u, 1)
          /\ ~ Sent(u, "join-queue")
          /\ recv_join_queue(t, u, OpenPayload(u))
    \/ \E t \in Slots, u \in RelayUsers, m \in RelayMatchIds :
          /\ n_events < RelayMaxEvents
          /\ FreeSlot(t, u, MaxPerUser)
          /\ ~ Sent(u, "chat-message")
          /\ recv_chat_message(t, u, m)
    \/ \E t \in Slots, u \in RelayUsers, m \in RelayMatchIds :
          /\ n_events < RelayMaxEvents
          /\ FreeSlot(t, u, MaxPerUser)
          /\ ~ Sent(u, "webrtc-signal")
          /\ recv_webrtc_signal(t, u, m)
    \/ \E t \in Slots, m \in ToldMatches(3) :
          /\ n_events < RelayMaxEvents
          /\ FreeSlot(t, 3, MaxPerUser)
          /\ ~ Sent(3, "end-call")
          /\ recv_end_call(t, 3, m)
    \/ \E t \in Slots : on_join_queue(t)
    \/ \E t \in Slots : try_match(t)
    \/ \E t \in Slots : try_match_inner(t)
    \/ \E t \in Slots : on_chat_message(t)
    \/ \E t \in Slots : on_webrtc_signal(t)
    \/ \E t \in Slots : end_match_session(t)
    \/ \E t \in Slots : record_match_end(t)
    \/ \E t \in Slots : remove_active_pair(t)

SpecRelay == Init /\ [][NextRelay]_vars

(***************************************************************************)
(* SpecForeign: users 1 and 3 join one after the other and are matched;     *)
(* user 2, a member of no match, sends end-call with a match id of its     *)
(* choice; the members send a chat message in their match.                 *)
(***************************************************************************)
ForeignMembers == {1, 3}

ForeignMatchIds == {1, 2}

NextForeign ==
    \/ \E t \in Slots, u \in ForeignMembers :
          /\ \A x \in Slots : Idle(x)
          /\ FreeSlot(t, u, 1)
          /\ ~ Sent(u, "join-queue")
          /\ recv_join_queue(t, u, OpenPayload(u))
    \/ \E t \in Slots, m \in ForeignMatchIds :
          /\ FreeSlot(t, 2, 1)
          /\ ~ Sent(2, "end-call")
          /\ recv_end_call(t, 2, m)
    \/ \E t \in Slots, u \in ForeignMembers :
          /\ FreeSlot(t, u, 1)
          /\ ~ Sent(u, "chat-message")
          /\ \E m \in ToldMatches(u) : recv_chat_message(t, u, m)
    \/ \E t \in Slots : on_join_queue(t)
    \/ \E t \in Slots : try_match(t)
    \/ \E t \in Slots : try_match_inner(t)
    \/ \E t \in Slots : on_chat_message(t)
    \/ \E t \in Slots : end_match_session(t)
    \/ \E t \in Slots : remove_active_pair(t)

SpecForeign == Init /\ [][NextForeign]_vars

(***************************************************************************)
(* SpecPhase: the phase of a user who joined at joined_at, recomputed as   *)
(* try_match_inner does each time the clock has advanced.                  *)
(***************************************************************************)
WaitMs(now_ms, joined_at) == Max(now_ms - joined_at, 0)

PhaseAt(now_ms, joined_at) ==
    LET wait_ms_a == WaitMs(now_ms, joined_at)
        phase_a == from_wait_ms(wait_ms_a)
    IN  [joined_at |-> joined_at, wait_ms |-> wait_ms_a, phase |-> phase_a,
         min_score |-> min_match_score(phase_a)]

InitPhase == InitStore /\ calc = PhaseAt(0, 0)

ElapsePhase(step) ==
    /\ now + step <= MaxWaitMs
    /\ now' = now + step
    /\ calc' = PhaseAt(now', calc.joined_at)
    /\ UNCHANGED store_vars

NextPhase == \E step \in {1, TICK_MS} : ElapsePhase(step)

SpecPhase == InitPhase /\ [][NextPhase]_vars

(***************************************************************************)
(* SpecScore: one iteration of the candidate loop of try_match_inner on a  *)
(* requesting user and a candidate drawn from the sets below.              *)
(***************************************************************************)
ProbeCountries == {{}, {"FR"}, {"JP"}}
ProbeWaits == {0, 499, 500, 1000, 3000}
ProbeNow == 3000

\* Age preferences that the other user of the probe misses on both sides.
ProbeAgeFilters == {[age_min |-> {}, age_max |-> {}], [age_min |-> {61}, age_max |-> {17}]}

ProbeHistories ==
    {DefaultHistory,
     [times_matched |-> 1, last_matched_at |-> ProbeNow, total_duration_secs |-> 5,
      likes |-> 0, follows |-> FALSE, messages |-> 0, skips |-> 3]}

ProbeUser(user_id, age, country, kinks, filter_country, age_filter, wait_ms) ==
    [user_id |-> user_id, age |-> age, country |-> country, kinks |-> kinks,
     filters |-> [country |-> filter_country, age_min |-> age_filter.age_min,
                  age_max |-> age_filter.age_max, kinks |-> <<>>],
     loc |-> {}, joined_at |-> ProbeNow - wait_ms]

ProbeInputs ==
    {[user_a |-> ProbeUser(1, 18, ca, <<"a">>, fa, af, wa),
      user_b |-> ProbeUser(2, age_b, cb, kinks_b, fb, af, wb),
      cooldown |-> cd, history |-> h, done |-> FALSE] :
        ca \in ProbeCountries, cb \in ProbeCountries,
        fa \in ProbeCountries, fb \in ProbeCountries,
        wa \in ProbeWaits, wb \in ProbeWaits,
        age_b \in {18, 60}, kinks_b \in {<<"a">>, <<"b">>},
        af \in ProbeAgeFilters, cd \in BOOLEAN, h \in ProbeHistories}

InitScore == InitStore /\ calc \in ProbeInputs

ScoreCandidate ==
    /\ ~ calc.done
    /\ calc' =
          [user_a |-> calc.user_a, user_b |-> calc.user_b,
           cooldown |-> calc.cooldown, history |-> calc.history, done |-> TRUE,
           phase_a |-> from_wait_ms(WaitMs(ProbeNow, calc.user_a.joined_at)),
           phase_b |-> from_wait_ms(WaitMs(ProbeNow, calc.user_b.joined_at)),
           min_score |->
               TryMatchMinScore(from_wait_ms(WaitMs(ProbeNow, calc.user_a.joined_at)),
                                from_wait_ms(WaitMs(ProbeNow, calc.user_b.joined_at))),
           score |-> CandidateScore(calc.user_a, calc.user_b, calc.history,
                                    ProbeNow, ProbeNow),
           eligible |-> CandidateEligible(calc.user_a, calc.user_b, calc.cooldown,
                                          calc.history, ProbeNow, ProbeNow)]
    /\ UNCHANGED <<now, store_vars>>

SpecScore == InitScore /\ [][ScoreCandidate]_vars

(***************************************************************************)
(* SpecSymmetry: calculate_score on a pair of queue users, evaluated in    *)
(* both argument orders at the same instant with the same history.  The    *)
(* kink lists are the client's payload as sent: any length, repeats        *)
(* allowed.                                                                *)
(***************************************************************************)
SymKinks == {<<>>, <<"a">>, <<"a", "a">>, <<"a", "b">>}

SymAgeFilters == {[age_min |-> {}, age_max |-> {}], [age_min |-> {30}, age_max |-> {50}]}

SymWaits == {0, 3000}

SymFilterCountries == {{}, {"FR"}}

SymLocs == {{}, {"Paris"}}

SymUser(user_id, age, country, kinks, filter_country, age_filter, loc, wait_ms) ==
    [user_id |-> user_id, age |-> age, country |-> country, kinks |-> kinks,
     filters |-> [country |-> filter_country, age_min |-> age_filter.age_min,
                  age_max |-> age_filter.age_max, kinks |-> <<>>],
     loc |-> loc, joined_at |-> ProbeNow - wait_ms]

SymInputs ==
    {[u |-> SymUser(1, 18, cu, ku, fu, au, {"Paris"}, wu),
      v |-> SymUser(2, 40, cv, kv, fv, av, lv, wv),
      history |-> h, done |-> FALSE] :
        cu \in ProbeCountries, cv \in ProbeCountries,
        ku \in SymKinks, kv \in SymKinks,
        fu \in SymFilterCountries, fv \in SymFilterCountries,
        au \in SymAgeFilters, av \in SymAgeFilters,
        lv \in SymLocs, wu \in SymWaits, wv \in SymWaits,
        h \in ProbeHistories}

InitSymmetry == InitStore /\ calc \in SymInputs

ScoreBothWays ==
    /\ ~ calc.done
    /\ LET phase_u == from_wait_ms(WaitMs(ProbeNow, calc.u.joined_at))
           phase_v == from_wait_ms(WaitMs(ProbeNow, calc.v.joined_at))
       IN  calc' =
             [u |-> calc.u, v |-> calc.v, history |-> calc.history, done |-> TRUE,
              uv |-> calculate_score(calc.u, calc.v, phase_u, phase_v,
                                     calc.history, ProbeNow),
              vu |-> calculate_score(calc.v, calc.u, phase_v, phase_u,
                                     calc.history, ProbeNow)]
    /\ UNCHANGED <<now, store_vars>>

SpecSymmetry == InitSymmetry /\ [][ScoreBothWays]_vars

(***************************************************************************)
(* SpecBus: the event bus with the webhook dispatcher and an SSE client     *)
(* subscribing at any time, events emitted at any time, consumers reading  *)
(* at their own pace.                                                      *)
(***************************************************************************)
NextBus ==
    \/ bus_emit
    \/ \E s \in Subs : bus_subscribe(s)
    \/ \E s \in Subs : webhook_dispatcher(s)
    \/ \E s \in Subs : sse_events(s)
    \/ \E s \in Subs : sse_disconnect(s)

SpecBus == Init /\ [][NextBus]_vars

(***************************************************************************)
(* SpecRoom: a room of any type is created; publish (camera or screen),    *)
(* call and conference requests arrive and run concurrently; a peer        *)
(* connection may fail and its callback run, at any time from the SDP      *)
(* exchange on.                                                            *)
(***************************************************************************)
NextRoom ==
    \/ \E id \in RoomIds, room_type \in RoomTypes : create_room(id, room_type)
    \/ \E q \in Conns, kind \in {"publish", "call", "conference"},
          id \in RoomIds, is_screen \in BOOLEAN :
          media_request(q, kind, id, is_screen)
    \/ \E q \in Conns : create_peer_connection(q)
    \/ \E q \in Conns : add_to_room(q)
    \/ \E q \in Conns, to \in {"connecting", "failed"} : state_change(q, to)
    \/ \E q \in Conns : on_peer_connection_state_change(q)

SpecRoom == Init /\ [][NextRoom]_vars

(***************************************************************************)
(* SpecTerminal: publish requests to a Broadcast or Call room whose peer   *)
(* connections may go through every state, from the SDP exchange on, while *)
(* the request is still running or after it.                               *)
(***************************************************************************)
TerminalConns == {1, 2}

NextTerminal ==
    \/ \E id \in RoomIds, room_type \in {"Broadcast", "Call"} : create_room(id, room_type)
    \/ \E q \in TerminalConns, id \in RoomIds, is_screen \in BOOLEAN :
          media_request(q, "publish", id, is_screen)
    \/ \E q \in TerminalConns : create_peer_connection(q)
    \/ \E q \in TerminalConns : add_to_room(q)
    \/ \E q \in TerminalConns : exchange_sdp_fails(q)
    \/ \E q \in TerminalConns,
          to \in {"connecting", "connected", "disconnected", "failed"} :
          state_change(q, to)
    \/ \E q \in TerminalConns : on_peer_connection_state_change(q)

SpecTerminal == Init /\ [][NextTerminal]_vars

(***************************************************************************)
(* SpecRejoin: a Call room. The client of subject 1 joins on connection 1  *)
(* and joins again with the same token on connection 2; the peer of        *)
(* subject 3 joins on connection 3. Connections reach the states the       *)
(* transport reaches on its own and their callbacks run.                   *)
(***************************************************************************)
RejoinConns == {1, 2, 3}

RejoinSubject == [q \in RejoinConns |-> IF q = 2 THEN 1 ELSE q]

NextRejoin ==
    \/ create_room(1, "Call")
    \/ \E q \in RejoinConns : media_request_sub(q, RejoinSubject[q], "call", 1, FALSE)
    \/ \E q \in RejoinConns : create_peer_connection(q)
    \/ \E q \in RejoinConns : add_to_room(q)
    \/ \E q \in RejoinConns, to \in {"connecting", "connected", "disconnected", "failed"} :
          state_change(q, to)
    \/ \E q \in RejoinConns : on_peer_connection_state_change(q)

SpecRejoin == Init /\ [][NextRejoin]_vars

(***************************************************************************)
(* SpecDelete: a room with publishers, and DELETE requests for it (or for  *)
(* an id the registry does not hold) that may race with each other, with   *)
(* publish requests and with the callbacks of the connections they close.  *)
(***************************************************************************)
DeleteConns == {1, 2}

NextDelete ==
    \/ \E id \in RoomIds, room_type \in {"Broadcast", "Call"} : create_room(id, room_type)
    \/ \E q \in DeleteConns, id \in RoomIds, is_screen \in BOOLEAN :
          media_request(q, "publish", id, is_screen)
    \/ \E q \in DeleteConns : create_peer_connection(q)
    \/ \E q \in DeleteConns : add_to_room(q)
    \/ \E q \in DeleteConns : state_change(q, "connecting")
    \/ \E q \in DeleteConns : on_peer_connection_state_change(q)
    \/ \E d \in Deletes, id \in RoomIds : recv_delete_room(d, id)
    \/ \E d \in Deletes : delete_room(d)

SpecDelete == Init /\ [][NextDelete]_vars

(***************************************************************************)
(* SpecSubscribe: one room, connection 1 publishes a camera, connections 2 *)
(* and 3 subscribe to it through sfu_subscribe or                          *)
(* sfu_conference_subscribe. The subscribers' connections move through     *)
(* every state the transport reaches on its own, at most                   *)
(* MaxTerminalChanges times into a terminal one. The fan-out tasks are     *)
(* spawned and left where they start; SpecFanout runs them.                *)
(***************************************************************************)
MaxTerminalChanges == 2

SubscribePublishers == {1}
SubscribeConns == {2, 3}

\* A state change of a subscriber's connection.
subscriber_transport(q, to) ==
    /\ http[q].kind \in SubscribeKinds
    /\ to \in TerminalStates =>
          subscriber[q].fetch_subs + peer_conn[q].queued < MaxTerminalChanges
    /\ state_change(q, to)

NextSubscribe ==
    \/ \E room_type \in {"Broadcast", "Conference"} : create_room(1, room_type)
    \/ \E q \in SubscribePublishers : media_request(q, "publish", 1, FALSE)
    \/ \E q \in SubscribePublishers \cup SubscribeConns : create_peer_connection(q)
    \/ \E q \in SubscribePublishers : add_to_room(q)
    \/ \E q \in SubscribePublishers, to \in {"connecting", "failed"} :
          /\ http[q].kind \in PublishKinds
          /\ state_change(q, to)
    \/ \E q \in SubscribePublishers : on_peer_connection_state_change(q)
    \/ \E q \in SubscribeConns, kind \in SubscribeKinds, p \in SubscribePublishers :
          subscribe_request(q, kind, 1, p)
    \/ \E q \in SubscribeConns : exchange_sdp_fails(q)
    \/ \E q \in SubscribeConns : spawn_fanout_task(q)
    \/ \E q \in SubscribeConns : bump_subscriber_count(q)
    \/ \E q \in SubscribeConns,
          to \in {"connecting", "connected", "disconnected", "failed"} :
          subscriber_transport(q, to)
    \/ \E q \in SubscribeConns : subscriber_state_change(q)

SpecSubscribe == Init /\ [][NextSubscribe]_vars

(***************************************************************************)
(* SpecFanout: one room, connection 1 publishes a camera, connections 2    *)
(* and 3 subscribe through sfu_subscribe and their fan-out tasks run. Every *)
(* connection fails at most once; the publisher has one video track.       *)
(* SpecCancel adds fairness: select! polls its ready branches in random    *)
(* order, so a branch that is ready again and again is taken (strong       *)
(* fairness for the cancelled() branch), and write_rtp returns (weak       *)
(* fairness for the step after it).                                        *)
(***************************************************************************)
FanoutConns == {2, 3}

FanoutStep(subscribers) ==
    \/ create_room(1, "Broadcast")
    \/ media_request(1, "publish", 1, FALSE)
    \/ \E q \in {1} \cup subscribers : create_peer_connection(q)
    \/ add_to_room(1)
    \/ \E q \in {1} \cup subscribers, to \in {"connecting", "failed"} :
          state_change(q, to)
    \/ on_peer_connection_state_change(1)
    \/ \E q \in subscribers : subscribe_request(q, "subscribe", 1, 1)
    \/ \E q \in subscribers : exchange_sdp_fails(q)
    \/ \E q \in subscribers : spawn_fanout_task(q)
    \/ \E q \in subscribers : bump_subscriber_count(q)
    \/ \E q \in subscribers : subscriber_state_change(q)
    \/ \E q \in subscribers, l \in Labels,
          branch \in {"cancelled", "Ok", "Lagged", "Closed"} :
          fanout_select(q, l, branch)
    \/ \E q \in subscribers, l \in Labels, ok \in BOOLEAN :
          fanout_write_rtp(q, l, ok)

\* The publisher's video track arrives and its read loop runs.
PublisherVideo ==
    \/ media[1].loops = <<>> /\ on_track(1, "video")
    \/ \E ok \in BOOLEAN : read_rtp(1, 1, ok)

NextFanout == FanoutStep(FanoutConns) \/ PublisherVideo

FairFanout ==
    \A q \in FanoutConns, l \in Labels :
       /\ SF_vars(fanout_select(q, l, "cancelled"))
       /\ WF_vars(\E ok \in BOOLEAN : fanout_write_rtp(q, l, ok))

SpecFanout == Init /\ [][NextFanout]_vars

\* The same with one subscriber, under the fairness of its tasks.
NextCancel == FanoutStep({2})

SpecCancel == Init /\ [][NextCancel]_vars /\ FairFanout

\* SpecClosed: the same with the publisher's video track and its read loop.
\* A select! whose recv is ready with Closed again and again takes it.
NextClosed == FanoutStep({2}) \/ PublisherVideo

FairClosed ==
    \A l \in Labels :
       /\ SF_vars(fanout_select(2, l, "Closed"))
       /\ WF_vars(\E ok \in BOOLEAN : read_rtp(1, 1, ok))

SpecClosed == Init /\ [][NextClosed]_vars /\ FairFanout /\ FairClosed

(***************************************************************************)
(* SpecScreen: one Broadcast room. Connection 1 publishes a camera and      *)
(* connection 2 a screen share under its "-screen" peer id, each with one  *)
(* video track; connection 3 subscribes and its fan-out tasks run.         *)
(***************************************************************************)
ScreenPublishers == {1, 2}

NextScreen ==
    \/ create_room(1, "Broadcast")
    \/ media_request(1, "publish", 1, FALSE)
    \/ media_request(2, "publish", 1, TRUE)
    \/ \E q \in ScreenPublishers \cup {3} : create_peer_connection(q)
    \/ \E q \in ScreenPublishers : add_to_room(q)
    \/ \E q \in ScreenPublishers : media[q].loops = <<>> /\ on_track(q, "video")
    \/ \E q \in ScreenPublishers, ok \in BOOLEAN : read_rtp(q, 1, ok)
    \/ subscribe_request(3, "subscribe", 1, 1)
    \/ spawn_fanout_task(3)
    \/ bump_subscriber_count(3)
    \/ \E l \in Labels, branch \in {"Ok", "Lagged"} : fanout_select(3, l, branch)
    \/ \E l \in Labels, ok \in BOOLEAN : fanout_write_rtp(3, l, ok)

SpecScreen == Init /\ [][NextScreen]_vars

(***************************************************************************)
(* SpecTrack: one room of any type. Connection 1 publishes a camera or a    *)
(* screen share or joins as a call or conference peer, may fail, and has   *)
(* up to MaxTracks remote tracks of any kind; connection 2 publishes a     *)
(* camera or a screen share and has one video track. The read loops run.   *)
(***************************************************************************)
TrackConns == {1, 2}

NextTrack ==
    \/ \E room_type \in RoomTypes : create_room(1, room_type)
    \/ \E kind \in PublishKinds, screen \in BOOLEAN : media_request(1, kind, 1, screen)
    \/ \E screen \in BOOLEAN : media_request(2, "publish", 1, screen)
    \/ \E q \in TrackConns : create_peer_connection(q)
    \/ \E q \in TrackConns : add_to_room(q)
    \/ \E to \in {"connecting", "failed"} : state_change(1, to)
    \/ on_peer_connection_state_change(1)
    \/ \E kind \in TrackKinds : on_track(1, kind)
    \/ media[2].loops = <<>> /\ on_track(2, "video")
    \/ \E q \in TrackConns, i \in 1 .. MaxTracks, ok \in BOOLEAN : read_rtp(q, i, ok)

SpecTrack == Init /\ [][NextTrack]_vars

(***************************************************************************)
(* SpecDeliver: WEB_RTC webhook.rs deliver, one delivery of one event to    *)
(* one endpoint under RetryPolicy::default(), as the dispatcher starts it. *)
(* calc is the frame of the call: the loop variable, last_status, the      *)
(* sleeps and the responses so far, the DeliveryResult once returned. Each *)
(* request ends, with a response or with an error (it carries a timeout),  *)
(* and each sleep ends: weak fairness for the steps.                       *)
(***************************************************************************)
\* RetryPolicy::default(), durations in ms.
MAX_ATTEMPTS == 5
BASE_DELAY_MS == 1000
MAX_DELAY_MS == 30000

RetryPolicy_default ==
    [max_attempts |-> MAX_ATTEMPTS, base_delay |-> BASE_DELAY_MS,
     max_delay |-> MAX_DELAY_MS]

\* u32::saturating_pow of 2, for the exponents that stay below 2^31.
saturating_pow2(e) == 2 ^ e

\* Variant: a delay that grows by base_delay per retry.
delay_for_linear(policy, attempt) ==
    Min(policy.base_delay * (attempt + 1), policy.max_delay)

\* RetryPolicy::delay_for, attempt counted from 0.
delay_for(policy, attempt) ==
    Min(policy.base_delay * saturating_pow2(attempt), policy.max_delay)

\* What client.post(..).send().await yields: a response with a status, or
\* an error (0).
SendResults == {0, 199, 200, 204, 299, 300, 404, 500}

\* (200..300).contains(&status)
is_2xx(status) == 200 <= status /\ status < 300

DeliverFrame ==
    [pc |-> "for", attempt |-> 0, last_status |-> {}, slept |-> <<>>,
     results |-> <<>>, returned |-> {}]

InitDeliver == InitStore /\ calc = DeliverFrame

DeliveryResult(attempts, success, last_status) ==
    [attempts |-> attempts, success |-> success, last_status |-> last_status]

\* The head of the loop: the sleep before every attempt but the first; the
\* return after the last.
deliver_for(policy) ==
    /\ calc.pc = "for"
    /\ calc' =
          IF calc.attempt >= policy.max_attempts
          THEN [calc EXCEPT !.pc = "returned",
                            !.returned = {DeliveryResult(policy.max_attempts, FALSE,
                                                         calc.last_status)}]
          ELSE IF calc.attempt > 0
          THEN [calc EXCEPT !.pc = "send",
                            !.slept = Append(@, delay_for(policy, calc.attempt - 1))]
          ELSE [calc EXCEPT !.pc = "send"]
    /\ UNCHANGED <<now, store_vars>>

\* The request and the match on its result.
deliver_send(result) ==
    /\ calc.pc = "send"
    /\ calc' =
          IF result # 0 /\ is_2xx(result)
          THEN [calc EXCEPT !.pc = "returned",
                            !.results = Append(@, result),
                            !.returned = {DeliveryResult(calc.attempt + 1, TRUE,
                                                         {result})}]
          ELSE [calc EXCEPT !.pc = "for", !.attempt = @ + 1,
                            !.results = Append(@, result),
                            !.last_status = IF result = 0 THEN @ ELSE {result}]
    /\ UNCHANGED <<now, store_vars>>

NextDeliver ==
    \/ deliver_for(RetryPolicy_default)
    \/ \E result \in SendResults : deliver_send(result)

SpecDeliver == InitDeliver /\ [][NextDeliver]_vars /\ WF_vars(NextDeliver)

(***************************************************************************)
(* SpecQuality: WEB_RTC analytics.rs, the stats collector. Every tick it   *)
(* snapshots the (room, peer) pairs of the registry and, pair by pair,     *)
(* computes the metrics and checks them against the thresholds. The f64    *)
(* metrics are in tenths (of a ms, of a percent, of a MOS point). calc is  *)
(* the frame of the task: the tick, the pairs left in it, the metrics it   *)
(* computed and the events it emitted.                                     *)
(***************************************************************************)
\* QualityThresholds::default(), in tenths.
MAX_RTT_MS == 3000
MAX_PACKET_LOSS_PCT == 50
MIN_MOS == 30
MAX_JITTER_MS == 500

QualityThresholds_default ==
    [max_rtt_ms |-> MAX_RTT_MS, max_packet_loss_pct |-> MAX_PACKET_LOSS_PCT,
     min_mos |-> MIN_MOS, max_jitter_ms |-> MAX_JITTER_MS]

MaxTicks == 2

QualityPeers == {<<1, 1>>, <<1, 2>>}

\* The metrics compute_metrics may yield: at and just beyond the thresholds,
\* and those of a good connection.
QualityMetrics ==
    [round_trip_time_ms : {3000, 3001}, packet_loss_pct : {50, 51},
     jitter_ms : {500, 501}, mos_score : {29, 30}]
    \cup {[round_trip_time_ms |-> 400, packet_loss_pct |-> 0,
           jitter_ms |-> 20, mos_score |-> 44]}

quality_degraded(metric, value, threshold, direction) ==
    [metric |-> metric, value |-> value, threshold |-> threshold,
     direction |-> direction]

\* Variant: the comparison is not strict.
beyond_or_equal(value, threshold, direction) ==
    IF direction = "above" THEN value >= threshold ELSE value <= threshold

\* `>` for a maximum, `<` for a minimum.
beyond(value, threshold, direction) ==
    IF direction = "above" THEN value > threshold ELSE value < threshold

\* The event of one `if` of check_thresholds, if any.
Check(metric, value, threshold, direction) ==
    IF beyond(value, threshold, direction)
    THEN <<quality_degraded(metric, value, threshold, direction)>> ELSE <<>>

\* check_thresholds: the events it emits, in order.
check_thresholds(metrics, thresholds) ==
    Check("round_trip_time_ms", metrics.round_trip_time_ms,
          thresholds.max_rtt_ms, "above")
    \o Check("packet_loss_pct", metrics.packet_loss_pct,
             thresholds.max_packet_loss_pct, "above")
    \o Check("jitter_ms", metrics.jitter_ms, thresholds.max_jitter_ms, "above")
    \o Check("mos_score", metrics.mos_score, thresholds.min_mos, "below")

InitQuality ==
    InitStore /\ calc = [pc |-> "tick", tick |-> 0, peers |-> {},
                         metrics |-> {}, events |-> <<>>]

\* ticker.tick().await and the snapshot of the rooms and their publishers.
stats_collector_tick(snapshot) ==
    /\ calc.pc = "tick"
    /\ calc.tick < MaxTicks
    /\ calc' = [calc EXCEPT !.tick = @ + 1, !.peers = snapshot,
                            !.pc = IF snapshot = {} THEN "tick" ELSE "peers"]
    /\ UNCHANGED <<now, store_vars>>

Tagged(events, tick, peer_key) ==
    [k \in DOMAIN events |->
        [tick |-> tick, room_id |-> peer_key[1], peer_id |-> peer_key[2],
         event |-> events[k]]]

\* The body of the loop for one pair: the metrics, then check_thresholds.
stats_collector_peer(peer_key, metrics) ==
    /\ calc.pc = "peers"
    /\ peer_key \in calc.peers
    /\ calc' = [calc EXCEPT
                   !.peers = @ \ {peer_key},
                   !.pc = IF calc.peers = {peer_key} THEN "tick" ELSE "peers",
                   !.metrics = @ \cup {[tick |-> calc.tick, peer |-> peer_key,
                                        metrics |-> metrics]},
                   !.events = @ \o Tagged(check_thresholds(metrics,
                                              QualityThresholds_default),
                                          calc.tick, peer_key)]
    /\ UNCHANGED <<now, store_vars>>

NextQuality ==
    \/ \E snapshot \in SUBSET QualityPeers : stats_collector_tick(snapshot)
    \/ \E peer_key \in QualityPeers, metrics \in QualityMetrics :
          stats_collector_peer(peer_key, metrics)

SpecQuality == InitQuality /\ [][NextQuality]_vars

(***************************************************************************)
(* SpecRecording: WEB_RTC recording.rs, the writer of an .lrr file and its  *)
(* reader. calc is the frame of recording_writer_task: the packets it      *)
(* received from the merged channel, write_buf, and the bytes of the file, *)
(* which start_recording opened with the 16-byte header. The writer        *)
(* flushes write_buf at 32768 bytes; here at FlushAt bytes, so that short  *)
(* recordings flush both in mid-recording and at the stop.                 *)
(***************************************************************************)
MaxPackets == 3
FlushAt == 270

\* n as k bytes, the least significant first (put_u32_le, put_u16_le), and
\* back (from_le_bytes).
RECURSIVE le_bytes(_, _)
le_bytes(n, k) ==
    IF k = 0 THEN <<>> ELSE <<n % 256>> \o le_bytes(n \div 256, k - 1)

RECURSIVE from_le_bytes(_)
from_le_bytes(bytes) ==
    IF bytes = <<>> THEN 0 ELSE Head(bytes) + 256 * from_le_bytes(Tail(bytes))

\* LRR_MAGIC, LRR_VERSION and the start time, as start_recording writes them.
LrrHeader == <<76, 82, 82, 49>> \o le_bytes(1, 4) \o le_bytes(1700000000, 8)

\* The marshalled bytes of the packets that arrive: one and two bytes, and
\* a length that needs the second byte of the length field.
RtpBytes ==
    {<<0>>, <<255>>, <<128, 7>>, [i \in 1 .. 257 |-> i % 256]}

\* TRACK_VIDEO, TRACK_AUDIO, TRACK_SCREEN.
TrackCodes == {0, 1, 2}

\* Microseconds since the start, as u32.
RelativeUs == {0, 66000}

\* `rtp_bytes.len() as u16`
as_u16(n) == n % 65536

\* The record of a packet: 4 + 1 + 2 + N bytes.
lrr_record(relative_us, track_kind, rtp_bytes) ==
    le_bytes(relative_us, 4) \o <<track_kind>>
    \o le_bytes(as_u16(Len(rtp_bytes)), 2) \o rtp_bytes

\* read_lrr_records: the records from `offset` (0-based) on.
RECURSIVE lrr_records_from(_, _)
lrr_records_from(data, offset) ==
    IF offset + 7 > Len(data) THEN <<>>
    ELSE LET relative_ts == from_le_bytes(SubSeq(data, offset + 1, offset + 4))
             track_kind == data[offset + 5]
             pkt_len == from_le_bytes(SubSeq(data, offset + 6, offset + 7))
         IN  IF offset + 7 + pkt_len > Len(data) THEN <<>>
             ELSE <<[relative_timestamp_us |-> relative_ts,
                     track_kind |-> track_kind,
                     rtp_data |-> SubSeq(data, offset + 8, offset + 7 + pkt_len)]>>
                  \o lrr_records_from(data, offset + 7 + pkt_len)

read_lrr_records(data) == lrr_records_from(data, 16)

InitRecording ==
    InitStore /\ calc = [pc |-> "select", packets |-> <<>>, write_buf |-> <<>>,
                         file |-> LrrHeader]

\* merge_rx.recv() yields a packet: its record goes to write_buf, which is
\* written to the file once it is large.
recording_recv(track_kind, rtp_bytes, relative_us) ==
    /\ calc.pc = "select"
    /\ Len(calc.packets) < MaxPackets
    /\ LET buf == calc.write_buf \o lrr_record(relative_us, track_kind, rtp_bytes)
           flush == Len(buf) >= FlushAt
       IN  calc' = [calc EXCEPT
                      !.packets = Append(@, [track_kind |-> track_kind,
                                             rtp_bytes |-> rtp_bytes]),
                      !.write_buf = IF flush THEN <<>> ELSE buf,
                      !.file = IF flush THEN @ \o buf ELSE @]
    /\ UNCHANGED <<now, store_vars>>

\* Variant: the writer stops without writing what it still holds.
flush_remaining_dropped(file, write_buf) == file

\* After the loop: `if !write_buf.is_empty() { file.write_all(&write_buf) }`.
flush_remaining(file, write_buf) == file \o write_buf

\* The loop is left (the token is cancelled, the channel is closed, the
\* maximum duration is reached) and the rest is flushed.
recording_stop ==
    /\ calc.pc = "select"
    /\ calc' = [calc EXCEPT !.pc = "stopped", !.write_buf = <<>>,
                            !.file = flush_remaining(calc.file, calc.write_buf)]
    /\ UNCHANGED <<now, store_vars>>

NextRecording ==
    \/ \E track_kind \in TrackCodes, rtp_bytes \in RtpBytes, relative_us \in RelativeUs :
          recording_recv(track_kind, rtp_bytes, relative_us)
    \/ recording_stop

SpecRecording == InitRecording /\ [][NextRecording]_vars

(***************************************************************************)
(* SpecStart: WEB_RTC recording.rs, RecordingManager. calc holds the         *)
(* manager: `active`, the map of RecordingHandles by recording id, each    *)
(* with its room and its is_active flag, and the start requests in flight  *)
(* or answered. The rooms named exist and have publishers (the handler     *)
(* returns before start_recording otherwise). Request r draws the          *)
(* recording id r.                                                         *)
(***************************************************************************)
MaxStarts == 3

StartRequests == 1 .. MaxStarts

RecordingRooms == {1, 2}

NoStart == [pc |-> "idle", room_id |-> 0, result |-> ""]

InitStart ==
    /\ InitStore
    /\ calc = [active |-> {}, req |-> [r \in StartRequests |-> NoStart]]

\* POST /v1/rooms/:room_id/recording/start reaches start_recording.
recv_start_recording(r, room_id) ==
    /\ calc.req[r] = NoStart
    /\ \A k \in 1 .. (r - 1) : calc.req[k] # NoStart
    /\ calc' = [calc EXCEPT !.req[r] = [NoStart EXCEPT !.pc = "check",
                                                       !.room_id = room_id]]
    /\ UNCHANGED <<now, store_vars>>

\* "Check if already recording this room", under the read lock.
already_recording(active, room_id) ==
    \E h \in active : h.room_id = room_id /\ h.is_active

\* start_recording: the check; the directory, the file and its header (ok:
\* none of them failed); the insertion under the write lock, after which the
\* writer task is spawned and the info returned.
start_recording(r, ok) ==
    LET s == calc.req[r] IN
    /\ s.pc \in {"check", "create_file", "insert"}
    /\ calc' =
          CASE s.pc = "check" ->
                 IF already_recording(calc.active, s.room_id)
                 THEN [calc EXCEPT !.req[r].pc = "done",
                                   !.req[r].result = "conflict"]
                 ELSE [calc EXCEPT !.req[r].pc = "create_file"]
            [] s.pc = "create_file" ->
                 IF ok THEN [calc EXCEPT !.req[r].pc = "insert"]
                 ELSE [calc EXCEPT !.req[r].pc = "done",
                                   !.req[r].result = "internal"]
            [] s.pc = "insert" ->
                 [calc EXCEPT
                    !.active = @ \cup {[recording_id |-> r, room_id |-> s.room_id,
                                        is_active |-> TRUE]},
                    !.req[r].pc = "done", !.req[r].result = "ok"]
    /\ UNCHANGED <<now, store_vars>>

\* is_active.store(false) on the handles in `stopped`.
deactivate(active, stopped) ==
    {IF h \in stopped THEN [h EXCEPT !.is_active = FALSE] ELSE h : h \in active}

\* POST /v1/rooms/:room_id/recording/stop: stop_room_recordings cancels
\* every active recording of the room.
stop_room_recordings(room_id) ==
    /\ calc' = [calc EXCEPT !.active =
                   deactivate(@, {h \in @ : h.room_id = room_id /\ h.is_active})]
    /\ UNCHANGED <<now, store_vars>>

\* The writer task of a recording returns (every channel closed, the
\* maximum duration reached, an error) and clears is_active.
writer_returns(recording_id) ==
    /\ \E h \in calc.active : h.recording_id = recording_id /\ h.is_active
    /\ calc' = [calc EXCEPT !.active =
                   deactivate(@, {h \in @ : h.recording_id = recording_id})]
    /\ UNCHANGED <<now, store_vars>>

NextStart ==
    \/ \E r \in StartRequests, room_id \in RecordingRooms :
          recv_start_recording(r, room_id)
    \/ \E r \in StartRequests, ok \in BOOLEAN : start_recording(r, ok)
    \/ \E room_id \in RecordingRooms : stop_room_recordings(room_id)
    \/ \E r \in StartRequests : writer_returns(r)

SpecStart == InitStart /\ [][NextStart]_vars

(***************************************************************************)
(* SpecRelease: two users send join-queue, one handler each, while the     *)
(* queue read of get_queue_users, the pool and the INSERT may fail and the *)
(* clock may pass the expiry of the lock.                                  *)
(***************************************************************************)
ReleaseUsers == {1, 2}

NextRelease ==
    \/ \E t \in Slots, u \in ReleaseUsers :
          /\ FreeSlot(t, u, 1)
          /\ ~ Sent(u, "join-queue")
          /\ recv_join_queue(t, u, OpenPayload(u))
    \/ \E t \in Slots : on_join_queue(t)
    \/ \E t \in Slots : try_match(t)
    \/ \E t \in Slots : try_match_inner(t)
    \/ \E t \in Slots : get_queue_users_err(t)
    \/ \E t \in Slots, failure \in DbFailures : db_err(t, failure)
    \/ Tick(LOCK_TTL_MS, LOCK_TTL_MS)

SpecRelease == Init /\ [][NextRelease]_vars

(***************************************************************************)
(* SpecIndex: users 1 and 2 join one after the other and are matched; then *)
(* user 1 sends next-match, user 2 sends end-call for the match and user 3 *)
(* sends join-queue, each once and in any interleaving.                    *)
(***************************************************************************)
IndexFirstPair == {1, 2}

NextIndex ==
    \/ \E t \in Slots, u \in IndexFirstPair :
          /\ \A x \in Slots : Idle(x)
          /\ FreeSlot(t, u, 1)
          /\ ~ Sent(u, "join-queue")
          /\ recv_join_queue(t, u, OpenPayload(u))
    \/ \E t \in Slots :
          /\ FreeSlot(t, 1, 1)
          /\ ToldMatches(1) # {}
          /\ ~ Sent(1, "next-match")
          /\ recv_next_match(t, 1, OpenPayload(1))
    \/ \E t \in Slots, m \in ToldMatches(2) :
          /\ FreeSlot(t, 2, 1)
          /\ ~ Sent(2, "end-call")
          /\ recv_end_call(t, 2, m)
    \/ \E t \in Slots :
          /\ FreeSlot(t, 3, 1)
          /\ ToldMatches(1) # {}
          /\ ~ Sent(3, "join-queue")
          /\ recv_join_queue(t, 3, OpenPayload(3))
    \/ \E t \in Slots : on_join_queue(t)
    \/ \E t \in Slots : on_next_match(t)
    \/ \E t \in Slots : try_match(t)
    \/ \E t \in Slots : try_match_inner(t)
    \/ \E t \in Slots : end_match_session(t)
    \/ \E t \in Slots : record_match_end(t)
    \/ \E t \in Slots : remove_active_pair(t)

SpecIndex == Init /\ [][NextIndex]_vars

(***************************************************************************)
(* Properties                                                              *)
(***************************************************************************)
SessionIds == DOMAIN match_sessions
SessionUsers(m) == {match_sessions[m].user_a_id, match_sessions[m].user_b_id}
SessionActive(m) == match_sessions[m].ended_at = {}
AllIdle == \A t \in Slots : Idle(t)

\* C1: a MatchSession is created only after both queue removals really
\* took the two users out of the queue, so no two sessions that are active
\* at the same time share a user.
C1_NoUserInTwoActiveMatches ==
    \A m1, m2 \in SessionIds :
        (m1 # m2 /\ SessionActive(m1) /\ SessionActive(m2))
            => SessionUsers(m1) \cap SessionUsers(m2) = {}

\* C2: whenever an attempt has created a match between A and B, match-found
\* naming B went to A and match-found naming A went to B with the same
\* match_id; match-found is never emitted to one of the two only.
C2_MatchFoundSymmetric ==
    /\ \A e \in DOMAIN emitted :
          e.event = "match-found" =>
             /\ Count(emitted, MatchFound(e.partner, e.match_id, e.to)) = emitted[e]
             /\ e.match_id \in SessionIds
             /\ e.to # e.partner
             /\ SessionUsers(e.match_id) = {e.to, e.partner}
    /\ \A r \in returned : \A m \in r.match_id :
          LET a == match_sessions[m].user_a_id
              b == match_sessions[m].user_b_id
          IN  /\ Count(emitted, MatchFound(a, m, b)) = 1
              /\ Count(emitted, MatchFound(b, m, a)) = 1

C2_Witness ==
    \E r \in returned : \E m \in r.match_id :
        /\ MatchFound(match_sessions[m].user_a_id, m, match_sessions[m].user_b_id)
              \in DOMAIN emitted
        /\ MatchFound(match_sessions[m].user_b_id, m, match_sessions[m].user_a_id)
              \in DOMAIN emitted

\* C3: when 2k mutually acceptable users have sent join-queue, then once
\* all the handlers have returned there are exactly k sessions, every one of
\* the users is in exactly one of them and the queue is empty.
JoinsReturned == {r \in returned : r.handler = "join-queue"}

MutuallyAcceptable ==
    \A r1, r2 \in JoinsReturned :
        r1.user # r2.user =>
            \A p1 \in r1.payload, p2 \in r2.payload :
                CandidateEligible(QueueUser(r1.user, p1, 0), QueueUser(r2.user, p2, 0),
                                  FALSE, DefaultHistory, 0, 0)

Joined == {r.user : r \in JoinsReturned}

C3_AllPairedAfterConcurrentJoins ==
    (/\ AllIdle
     /\ Cardinality(Joined) % 2 = 0
     /\ MutuallyAcceptable)
    => /\ 2 * Len(match_sessions) = Cardinality(Joined)
       /\ \A u \in Joined :
             Cardinality({m \in SessionIds : u \in SessionUsers(m)}) = 1
       /\ queue = {}

\* C4: for each user, at most one match attempt is between the acquisition
\* of matching:lock:<user> and its deletion at any time, also when the 3 s
\* expiry of the lock elapses while an attempt is still running.
InLockedSection(t) == tasks[t].pc \in TmPcs \cup {"tm_unlock"}

C4_OneAttemptInLockedSection ==
    \A u \in Users :
        Cardinality({t \in Slots : tasks[t].user = u /\ InLockedSection(t)}) <= 1

\* C5: the country hard filter and the minimum score applied to a requester
\* u and a candidate c are those of the more lenient of their two phases:
\* c is eligible exactly when the pair is not in cooldown, the filters pass
\* under that phase and score(u, c) >= min_score(max_phase(phase_u, phase_c)).
MaxPhase(p, q) == IF PhaseRank(q) > PhaseRank(p) THEN q ELSE p

C5_LenientPhaseGoverns ==
    (calc.done = TRUE) =>
        LET phase == MaxPhase(calc.phase_a, calc.phase_b)
        IN  /\ calc.min_score = min_match_score(phase)
            /\ calc.eligible <=>
                  /\ ~ calc.cooldown
                  /\ passes_filters(calc.user_a, calc.user_b.filters, phase)
                  /\ passes_filters(calc.user_b, calc.user_a.filters, phase)
                  /\ calc.score.score >= min_match_score(phase)

\* C6: the phase is Strict for a wait of 0 to 499 ms, Normal for 500 to
\* 999 ms, Relaxed for 1000 to 2999 ms and Desperate from 3000 ms on, with
\* minimum scores 0.10, 0.05, 0.02 and 0.0; as the wait of a queued user
\* grows, the phase never becomes stricter and the minimum score never
\* increases.
PhaseTable ==
    /\ calc.wait_ms \in 0 .. 499 =>
          calc.phase = "Strict" /\ calc.min_score = 100000
    /\ calc.wait_ms \in 500 .. 999 =>
          calc.phase = "Normal" /\ calc.min_score = 50000
    /\ calc.wait_ms \in 1000 .. 2999 =>
          calc.phase = "Relaxed" /\ calc.min_score = 20000
    /\ calc.wait_ms >= 3000 =>
          calc.phase = "Desperate" /\ calc.min_score = 0

PhaseRelaxes ==
    calc'.wait_ms >= calc.wait_ms =>
        /\ PhaseRank(calc'.phase) >= PhaseRank(calc.phase)
        /\ calc'.min_score <= calc.min_score

GoverningStrict == MaxPhase(calc.phase_a, calc.phase_b) = "Strict"

Blocked ==
    /\ calc.score = [score |-> 0, passes_filters |-> FALSE]
    /\ ~ calc.eligible

C7_DeclaredCountriesDiffer ==
    (/\ calc.done = TRUE
     /\ GoverningStrict
     /\ calc.user_a.country # {}
     /\ calc.user_b.country # {}
     /\ calc.user_a.country # calc.user_b.country)
    => Blocked

\* C7 amended: when the governing phase of a pair is Strict and the country
\* filter of one of the two users is set and differs from the known country
\* of the other, calculate_score returns score 0 with passes_filters =
\* false, so the pair is not selected.
FilterExcludes(user, other) ==
    \E country \in user.filters.country : \E other_country \in other.country :
        country # other_country

C7_CountryFilterDiffers ==
    (/\ calc.done = TRUE
     /\ GoverningStrict
     /\ \/ FilterExcludes(calc.user_a, calc.user_b)
        \/ FilterExcludes(calc.user_b, calc.user_a))
    => Blocked

C7_Witness ==
    /\ calc.done = TRUE
    /\ GoverningStrict
    /\ FilterExcludes(calc.user_a, calc.user_b)
    /\ ~ FilterExcludes(calc.user_b, calc.user_a)
    /\ calc.user_a.country = calc.user_b.country
    /\ Blocked

\* C8: after a match between A and B has ended, no new match between A and
\* B is created during the cooldown window that follows the separation,
\* whatever the duration of the ended match was.
C8_NoRematchAfterSeparation ==
    \A m1, m2 \in SessionIds :
        (/\ m1 # m2
         /\ SessionUsers(m1) = SessionUsers(m2)
         /\ match_sessions[m1].ended_at # {})
        => \A ended_at \in match_sessions[m1].ended_at :
              ~ (/\ ended_at <= match_sessions[m2].started_at
                 /\ match_sessions[m2].started_at < ended_at + COOLDOWN_TTL_MS)

\* C9: two users who are both in the queue and whose only obstacle to
\* matching is the Strict-phase country filter are matched (match-found to
\* both) once the governing phase has become Normal, without another
\* join-queue or next-match from either client.
QueuedMember(u) == {e.member : e \in {x \in queue : x.member.user_id = u}}

OnlyStrictFilterBlocks(a, b) ==
    /\ ~ KeyExists(cooldown[PairKey(a.user_id, b.user_id)])
    /\ ~ calculate_score(a, b, "Strict", "Strict", DefaultHistory, now).passes_filters
    /\ calculate_score(a, b, "Normal", "Normal", DefaultHistory, now).score
          >= min_match_score("Normal")

\* The more lenient of the two users' phases at the present time.
GoverningPhase(a, b) ==
    MaxPhase(from_wait_ms(WaitMs(now, a.joined_at)),
             from_wait_ms(WaitMs(now, b.joined_at)))

\* Users 1 and 2 are queued, only the Strict filter stands between them and
\* their governing phase is no longer Strict.
QueuedPastStrict ==
    \E a \in QueuedMember(1), b \in QueuedMember(2) :
        /\ OnlyStrictFilterBlocks(a, b)
        /\ GoverningPhase(a, b) # "Strict"

MatchedTogether(a, b) ==
    \E m \in SessionIds :
        /\ MatchFound(a, m, b) \in DOMAIN emitted
        /\ MatchFound(b, m, a) \in DOMAIN emitted

C9_MatchedOnceNormal == QueuedPastStrict ~> MatchedTogether(1, 2)

\* C10: whenever a member of an active match ends it with end-call, then
\* after the handler has returned the session record is finalized, the
\* active-pair record and both user-to-match entries of that match are
\* removed and the partner has been sent exactly one partner-left for it.
PartnerLeftSent(to, m) ==
    LET es == {e \in DOMAIN emitted :
                  e.event = "partner-left" /\ e.to = to /\ e.match_id = m}
        RECURSIVE Sum(_)
        Sum(S) == IF S = {} THEN 0
                  ELSE LET e == CHOOSE x \in S : TRUE
                       IN  emitted[e] + Sum(S \ {e})
    IN  Sum(es)

C10_EndCallCleansUp ==
    \A r \in returned :
        (r.handler = "end-call" /\ r.partner_id # {}) =>
            \A m \in r.arg_match : \A partner \in r.partner_id :
                /\ match_sessions[m].ended_at # {}
                /\ match_sessions[m].end_reason # {}
                /\ match_sessions[m].duration_secs # {}
                /\ ~ \E p \in pair : p.match_id = m
                /\ user_match[r.user] # {m}
                /\ user_match[partner] # {m}
                /\ PartnerLeftSent(partner, m) = 1


\* C11: after a user's disconnect handler has completed, that user is not
\* in the queue and not a member of an active match, whatever the other
\* users' concurrent match attempts do.
Disconnected == {r.user : r \in {x \in returned : x.handler = "disconnect"}}

C11_DisconnectedUserIsGone ==
    \A u \in Disconnected :
        /\ QueuedMember(u) = {}
        /\ ~ \E m \in SessionIds : SessionActive(m) /\ u \in SessionUsers(m)
        /\ user_match[u] = {}

RelayHandlers == {"chat-message", "webrtc-signal"}

RelayedMessages == {e \in DOMAIN emitted : e.event \in RelayHandlers}

RelayReturns(u, h) == {r \in returned : r.user = u /\ r.handler = h}

\* C12 (as stated): a chat-message or webrtc-signal naming match m reaches
\* the other member of m's active pair only, and only while m is active and
\* the sender is one of its members: at the step that delivers it, the pair
\* record of m exists and names the sender and the receiver.
C12_RelayedOnlyWhileActive ==
    [][\A e \in DOMAIN emitted' :
          (e.event \in RelayHandlers /\ Count(emitted', e) > Count(emitted, e))
              => get_partner(e.match_id, e.partner) = {e.to}]_vars

\* C12 (amended): a chat-message or webrtc-signal naming match m is relayed
\* exactly when get_partner found m's pair record with the sender as one of
\* its two members, once, and to the other member of m only; in every other
\* case nothing is relayed and the sender receives a NOT_IN_MATCH error.
C12_RelayedToResolvedPartner ==
    /\ \A e \in RelayedMessages :
          /\ e.match_id \in SessionIds
          /\ SessionUsers(e.match_id) = {e.to, e.partner}
          /\ e.to # e.partner
          /\ emitted[e] = 1
          /\ \E r \in RelayReturns(e.partner, e.event) :
                r.arg_match = {e.match_id} /\ r.partner_id = {e.to}
    /\ \A u \in Users, h \in RelayHandlers :
          \A r \in RelayReturns(u, h) :
             LET m == CHOOSE x \in r.arg_match : TRUE
             IN  IF r.partner_id = {}
                 THEN ~ \E e \in RelayedMessages : e.event = h /\ e.partner = u
                 ELSE Count(emitted, Relay(h, CHOOSE p \in r.partner_id : TRUE, m, u)) = 1
    /\ \A u \in Users, m \in RelayMatchIds :
          Count(emitted, NotInMatch(u, m)) =
             Cardinality({r \in returned : /\ r.user = u
                                           /\ r.handler \in RelayHandlers
                                           /\ r.arg_match = {m}
                                           /\ r.partner_id = {}})

C12_Witness ==
    /\ Count(emitted, Relay("chat-message", 3, 1, 1)) = 1
    /\ Count(emitted, Relay("webrtc-signal", 1, 1, 3)) = 1
    /\ Count(emitted, NotInMatch(2, 1)) = 1

\* C13: for two queue users with the same pair history, evaluated at the
\* same instant, calculate_score returns the same passes_filters and the
\* same score in both argument orders, whatever their kink lists, countries
\* and age windows.
C13_ScoreSymmetric ==
    calc.done => (calc.uv.passes_filters = calc.vu.passes_filters
                  /\ calc.uv.score = calc.vu.score)


Range(f) == {f[i] : i \in DOMAIN f}

\* The 0-based position in bus.sent of a stored event.
PosOf(event) == (CHOOSE i \in DOMAIN bus.sent : bus.sent[i] = event) - 1

\* The number of events the first k recv results of a receiver account for:
\* one per event, n per Lagged(n).
RECURSIVE Consumed(_, _)
Consumed(obs, k) ==
    IF k = 0 THEN 0
    ELSE Consumed(obs, k - 1) + (IF obs[k].ok THEN 1 ELSE obs[k].lagged)

ObservedEvent(s, event) == \E k \in DOMAIN rx[s].observed : rx[s].observed[k] = Ok(event)

\* Position p was skipped by a Lagged result of receiver s.
SkippedByLagged(s, p) ==
    \E k \in DOMAIN rx[s].observed :
        /\ ~ rx[s].observed[k].ok
        /\ rx[s].sub_pos + Consumed(rx[s].observed, k - 1) <= p
        /\ p < rx[s].sub_pos + Consumed(rx[s].observed, k)

EmitCounts ==
    \A i \in DOMAIN bus.log :
        LET e == bus.log[i] IN
        /\ e.ret = Cardinality(e.receivers)
        /\ e.ret = 0 <=> e.event \notin Range(bus.sent)

EmittedAfterSubscribe(s) ==
    LET Counted(e) == s \in e.receivers
        entries == SelectSeq(bus.log, Counted)
    IN  [k \in DOMAIN entries |-> entries[k].event]

NeverLagged(s) == \A k \in DOMAIN rx[s].observed : rx[s].observed[k].ok

CaughtUp(s) == rx[s].state = "running" /\ rx[s].next = Len(bus.sent)

\* C15: the sequence of events a subscriber observes is, as long as it does
\* not lag, exactly the sequence of events emitted after its subscribe call,
\* in publication order (a prefix of it while it still has events to read);
\* no subscriber, lagging or not, observes an event emitted before its
\* subscription.
C15_ObservedIsEmittedAfterSubscribe ==
    \A s \in Subs :
        LET obs == rx[s].observed
            after == EmittedAfterSubscribe(s)
        IN  /\ NeverLagged(s) =>
                 /\ Len(obs) <= Len(after)
                 /\ \A k \in DOMAIN obs : obs[k] = Ok(after[k])
                 /\ CaughtUp(s) => Len(obs) = Len(after)
            /\ \A k \in DOMAIN obs : obs[k].ok => obs[k].event \in Range(after)

C15_Witness ==
    /\ rx["sse"].sub_pos >= 1
    /\ NeverLagged("sse")
    /\ Len(rx["sse"].observed) >= 2
    /\ CaughtUp("sse")

ConsumerStep(s) == webhook_dispatcher(s) \/ sse_events(s)

\* C16: emit is never blocked, however far behind a subscriber is; a
\* subscriber that fell more than the capacity behind observes Lagged(n)
\* with n the number of events it missed (every position between its
\* subscription and its next read is either an observed event or counted by
\* exactly one Lagged); and after a Lagged signal the webhook dispatcher and
\* the SSE stream are still running and ready to receive what follows.
C16_EmitNeverBlocksLaggedIsExact ==
    /\ bus.n_emit < MaxEmits => ENABLED bus_emit
    /\ \A s \in Subs :
          LET obs == rx[s].observed IN
          /\ rx[s].sub_pos + Consumed(obs, Len(obs)) = rx[s].next
          /\ \A k \in DOMAIN obs :
                IF obs[k].ok
                THEN obs[k].event = bus.sent[rx[s].sub_pos + Consumed(obs, k - 1) + 1]
                ELSE obs[k].lagged >= 1
          /\ rx[s].state \in {"none", "running", "dropped"}
          /\ (s = "webhook" /\ rx[s].state # "none") => rx[s].state = "running"
          /\ (rx[s].state = "running" /\ rx[s].next < Len(bus.sent))
                 => ENABLED ConsumerStep(s)
          /\ Len(bus.sent) - rx[s].next > BusCapacity
                 => (rx[s].state = "running"
                        => ENABLED (ConsumerStep(s) /\ ~ rx'[s].observed[Len(rx'[s].observed)].ok))

C16_Witness ==
    \A s \in Subs :
        \E k \in DOMAIN rx[s].observed :
            /\ ~ rx[s].observed[k].ok
            /\ k < Len(rx[s].observed)
            /\ rx[s].observed[k + 1].ok
            /\ rx[s].state = "running"

\* C17: in every reachable state, under any interleaving of concurrent
\* publish, call and conference requests, the number of non-screen
\* publishers in a room's publisher map is at most max_publishers of its
\* topology (Broadcast 1, Call 2, Conference 50).
C17_NonScreenPublishersWithinCap ==
    \A id \in RoomIds :
        /\ Cardinality(NonScreen(room[id])) <= room[id].max_publishers
        /\ room[id] # NoRoom =>
              room[id].max_publishers =
                 (CASE room[id].room_type = "Broadcast" -> 1
                    [] room[id].room_type = "Call" -> 2
                    [] room[id].room_type = "Conference" -> 50)

\* A Call room at its cap, and a request that passed the first check and
\* was turned away by add_publisher after its SDP exchange.
C17_Witness ==
    \E id \in RoomIds, q \in Conns :
        /\ room[id].room_type = "Call"
        /\ Cardinality(NonScreen(room[id])) = room[id].max_publishers
        /\ http[q].result = "room_full"
        /\ peer_conn[q].state # "none"

\* C18: screen-share publishers do not count against the publisher cap: a
\* camera (non-screen) publish is admitted whenever the number of non-screen
\* publishers is below max_publishers, however many screen-share publishers
\* are in the room and whether they came before or after; so a camera
\* publish is answered room_full only when the non-screen publishers it
\* found were at the cap.
C18_CameraRejectedOnlyAtNonScreenCap ==
    \A q \in Conns :
        (http[q].kind = "publish" /\ ~ http[q].screen /\ http[q].result = "room_full")
            => http[q].non_screen_seen >= room[http[q].room_id].max_publishers

\* C19: once a publisher's peer connection has reached Failed, Disconnected
\* or Closed and its state-change callback and its publish request have both
\* finished, the publisher is not in its room's publisher map, also when the
\* terminal transition happened during the SDP exchange, before the
\* insertion.
C19_TerminalPublisherNotInRoom ==
    \A q \in Conns :
        (/\ http[q].pc = "done"
         /\ peer_conn[q].state \in TerminalStates
         /\ peer_conn[q].queued = 0
         /\ peer_conn[q].callback = "idle")
            => Entry(q) \notin room[http[q].room_id].publishers

RoomDeletedEvents(id) ==
    {i \in DOMAIN bus.log : bus.log[i].kind = "room.deleted" /\ bus.log[i].room_id = id}

DeletesOf(id, result) ==
    {d \in Deletes : del[d].pc = "done" /\ del[d].room_id = id /\ del[d].result = result}

\* A delete that does not find the room answers at once and leaves the
\* registry, the rooms, the connections and the bus as they were.
NotFoundChangesNothing ==
    \A d \in Deletes :
        (del[d].pc = "remove" /\ del'[d].result = "room_not_found")
            => UNCHANGED <<rooms, room, peer_conn, http, bus, rx>>

\* C20: a DELETE of an existing room removes it from the registry, closes
\* the peer connection of every publisher the room owned (those in its map
\* when the delete reads it) and emits exactly one RoomDeleted event, also
\* when two deletes of the same room race (one of them then finds no
\* room); a delete of a room that is not in the registry returns
\* room_not_found, emits no event and changes no state.
C20_DeleteRemovesClosesEmitsOnce ==
    /\ [](\A id \in RoomIds :
            /\ Cardinality(RoomDeletedEvents(id)) = Cardinality(DeletesOf(id, "no_content"))
            /\ Cardinality(RoomDeletedEvents(id)) <= 1
            /\ \A d \in DeletesOf(id, "no_content") :
                  /\ id \notin rooms
                  /\ \A p \in del[d].publishers : peer_conn[p.conn].state = "closed")
    /\ [][NotFoundChangesNothing]_vars

\* Two deletes of a room with a publisher have raced: one closed the
\* publisher and emitted the event, the other found no room.
C20_Witness ==
    \E id \in RoomIds :
        /\ \E d \in DeletesOf(id, "no_content") : del[d].publishers # {}
        /\ DeletesOf(id, "room_not_found") # {}
        /\ Cardinality(RoomDeletedEvents(id)) = 1

\* The subscribers of room id whose request completed and whose connection
\* is in no terminal state.
LiveSubscribers(id) ==
    {q \in Conns : /\ http[q].kind \in SubscribeKinds
                   /\ http[q].room_id = id
                   /\ http[q].pc = "done" /\ http[q].result = "ok"
                   /\ peer_conn[q].state \notin TerminalStates}

\* No request is between its steps and no callback is waiting to run.
SubscribersSettled ==
    \A q \in Conns : /\ http[q].pc \in {"idle", "done"}
                     /\ peer_conn[q].queued = 0
                     /\ peer_conn[q].callback = "idle"

\* The counter is below 2^48: it did not wrap below 0.
NotWrapped(c) == c[4] = 0

\* C21: subscriber_count of a room equals the number of subscribers whose
\* request completed and whose connection reached no terminal state (read
\* when no request and no callback is under way); a subscriber increments
\* it once at most and decrements it once at most, never decrements before
\* it incremented, and the unsigned counter never wraps below 0, also when
\* one connection passes through several of Disconnected, Failed, Closed.
C21_SubscriberCountIsLiveSubscribers ==
    /\ \A id \in RoomIds :
          /\ NotWrapped(subscriber_count[id])
          /\ SubscribersSettled =>
                subscriber_count[id] =
                    AtomicU64_new(Cardinality(LiveSubscribers(id)))
    /\ \A q \in Conns :
          http[q].kind \in SubscribeKinds =>
             /\ subscriber[q].fetch_adds <= 1
             /\ subscriber[q].fetch_subs <= 1
             /\ subscriber[q].fetch_subs <= subscriber[q].fetch_adds


\* A subscriber whose request completed went to Disconnected and on to
\* Failed: two decrements for its one increment, the counter at 2^64 - 1.
DecrementedTwice ==
    \E q \in Conns :
       /\ http[q].kind \in SubscribeKinds
       /\ subscriber[q].fetch_adds = 1
       /\ subscriber[q].fetch_subs = 2
       /\ peer_conn[q].state = "failed"
       /\ subscriber_count[http[q].room_id] = <<LIMB - 1, LIMB - 1, LIMB - 1, LIMB - 1>>

Running(q, l) == subscriber[q].fanout[l].state \in {"select", "write_rtp"}

Terminated(q, l) == subscriber[q].fanout[l].state = "done"

\* C22: once the cancellation token of a subscriber has fired, every fan-out
\* task of that subscriber eventually terminates, the tasks spawned before
\* the token fired and those spawned after it.
C22_CancelledFanoutTerminates ==
    \A q \in Conns, l \in Labels :
       (subscriber[q].cancel /\ Running(q, l)) ~> Terminated(q, l)

\* The token fired while the handler awaited the SDP exchange; the tasks it
\* spawned afterwards have left through the cancelled() branch.
C22_Witness ==
    \E q \in Conns :
       /\ subscriber[q].cancel
       /\ \A l \in {"video", "audio"} :
             /\ Terminated(q, l)
             /\ subscriber[q].fanout[l].exit = "cancelled"
             /\ subscriber[q].fanout[l].after_cancel

\* The tasks were running when the token fired, and have left through the
\* cancelled() branch.
CancelledWhileRunning ==
    \E q \in Conns :
       /\ subscriber[q].cancel
       /\ \A l \in {"video", "audio"} :
             /\ Terminated(q, l)
             /\ subscriber[q].fanout[l].exit = "cancelled"
             /\ ~ subscriber[q].fanout[l].after_cancel


\* The step is a write error in a fan-out task of subscriber q.
WriteError(q) ==
    \E l \in Labels :
       /\ subscriber[q].fanout[l].state = "write_rtp"
       /\ subscriber'[q].fanout[l].exit = "write_error"

\* The step takes the connection of subscriber q to a terminal state, or
\* runs its callback for one.
SubscriberTerminal(q) ==
    /\ http[q].kind \in SubscribeKinds
    /\ \/ /\ peer_conn[q].state \notin TerminalStates
          /\ peer_conn'[q].state \in TerminalStates
       \/ subscriber'[q].fetch_subs > subscriber[q].fetch_subs

\* The read loops of the publishers: the loops and what they sent.
ReadLoops == [q \in Conns |-> IF http[q].kind \in PublishKinds THEN media[q] ELSE NoMedia]

\* C23: a write error in a fan-out task of one subscriber, and a terminal
\* state of one subscriber, leave unchanged the publisher map of the room,
\* the RTP read loops of the publishers and the fan-out tasks of every
\* other subscriber.
C23_SubscriberFailureIsLocal ==
    [][\A q \in Conns :
          (WriteError(q) \/ SubscriberTerminal(q)) =>
             /\ room' = room
             /\ rooms' = rooms
             /\ ReadLoops' = ReadLoops
             /\ \A o \in Conns \ {q} : subscriber'[o].fanout = subscriber[o].fanout]_vars

\* A task of one subscriber left on a write error and that subscriber's
\* token fired, while a task of another subscriber, the read loop and the
\* publisher's entry are where they were.
C23_Witness ==
    \E q, o \in Conns :
       /\ q # o
       /\ \E l \in Labels : subscriber[q].fanout[l].exit = "write_error"
       /\ subscriber[q].cancel
       /\ \E l \in Labels : Running(o, l)
       /\ room[1].publishers # {}
       /\ Len(media[1].loops) = 1 /\ media[1].loops[1].running

\* The video packets of connection q were sent on sender c.
VideoOn(q, c) == "video" \in media[q].tx[c]

\* Connection q was published with screen=true.
ScreenShare(q) == http[q].kind = "publish" /\ http[q].screen

\* C24: the video RTP of a connection published with screen=true is sent on
\* screen_tx and never on video_tx; that of a connection published with
\* screen=false is sent on video_tx and never on screen_tx.
C24_VideoRoutedByScreenFlag ==
    \A q \in Conns :
       http[q].kind \in PublishKinds =>
          /\ ScreenShare(q) => ~ VideoOn(q, "video_tx")
          /\ ~ ScreenShare(q) => ~ VideoOn(q, "screen_tx")
          /\ \A i \in DOMAIN media[q].loops :
                media[q].loops[i].kind = "video" =>
                   media[q].loops[i].tx =
                      IF ScreenShare(q) THEN "screen_tx" ELSE "video_tx"

\* A screen share and a camera both had video packets forwarded.
C24_Witness ==
    \E q, o \in Conns :
       /\ ScreenShare(q) /\ VideoOn(q, "screen_tx")
       /\ http[o].kind = "publish" /\ ~ http[o].screen /\ VideoOn(o, "video_tx")

\* The attempts made so far, in order; attempt k is results[k].
Attempts == calc.results

\* C25: a webhook delivery makes at most 5 attempts and none after the first
\* 2xx response; before attempt k >= 2 it waits min(1 s * 2^(k-2), 30 s); it
\* always terminates; it reports success exactly when an attempt returned
\* 2xx.
C25_DeliveryRetriesAndTerminates ==
    /\ [](/\ Len(Attempts) <= 5
          /\ \A k \in 1 .. (Len(Attempts) - 1) : ~ is_2xx(Attempts[k])
          /\ Len(calc.slept) >= Len(Attempts) - 1
          /\ (calc.pc = "send" => Len(calc.slept) = Len(Attempts))
          /\ \A k \in 2 .. (Len(calc.slept) + 1) :
                calc.slept[k - 1] = Min(1000 * 2 ^ (k - 2), 30000)
          /\ \A r \in calc.returned :
                /\ r.success <=> \E k \in DOMAIN Attempts : is_2xx(Attempts[k])
                /\ r.attempts = Len(Attempts))
    /\ <>(calc.pc = "returned")

\* Four attempts failed, the fifth returned 2xx after waits of 1, 2, 4 and
\* 8 s, and the delivery reported success.
C25_Witness ==
    /\ calc.pc = "returned"
    /\ Len(Attempts) = 5
    /\ calc.slept = <<1000, 2000, 4000, 8000>>
    /\ \E r \in calc.returned : r.success /\ r.attempts = 5

\* The QualityDegraded events of one tick for one pair and one metric.
Degraded(tick, peer_key, metric) ==
    {k \in DOMAIN calc.events :
        /\ calc.events[k].tick = tick
        /\ <<calc.events[k].room_id, calc.events[k].peer_id>> = peer_key
        /\ calc.events[k].event.metric = metric}

\* C26: in a tick, for a (room, peer) pair and for each metric, exactly one
\* QualityDegraded event is emitted if the metric is strictly beyond its
\* threshold (RTT > 300 ms, loss > 5 %, jitter > 50 ms, MOS < 3.0), and none
\* if it is not, equality included; at most one set of metrics is computed
\* per pair and tick.
C26_OneEventPerMetricBeyondThreshold ==
    /\ \A m \in calc.metrics :
          LET n(metric) == Cardinality(Degraded(m.tick, m.peer, metric))
              v == m.metrics
          IN  /\ n("round_trip_time_ms") = IF v.round_trip_time_ms > 3000 THEN 1 ELSE 0
              /\ n("packet_loss_pct") = IF v.packet_loss_pct > 50 THEN 1 ELSE 0
              /\ n("jitter_ms") = IF v.jitter_ms > 500 THEN 1 ELSE 0
              /\ n("mos_score") = IF v.mos_score < 30 THEN 1 ELSE 0
    /\ \A m1, m2 \in calc.metrics :
          m1.tick = m2.tick /\ m1.peer = m2.peer => m1 = m2
    /\ \A k \in DOMAIN calc.events :
          \E m \in calc.metrics :
             m.tick = calc.events[k].tick
             /\ m.peer = <<calc.events[k].room_id, calc.events[k].peer_id>>

\* Two ticks over the same pair: in one every metric was at its threshold
\* and nothing was emitted, in the other every metric was beyond it and
\* four events were.
C26_Witness ==
    \E m1, m2 \in calc.metrics :
       /\ m1.peer = m2.peer /\ m1.tick # m2.tick
       /\ m1.metrics = [round_trip_time_ms |-> 3000, packet_loss_pct |-> 50,
                        jitter_ms |-> 500, mos_score |-> 30]
       /\ m2.metrics = [round_trip_time_ms |-> 3001, packet_loss_pct |-> 51,
                        jitter_ms |-> 501, mos_score |-> 29]
       /\ Cardinality({k \in DOMAIN calc.events : calc.events[k].tick = m2.tick
                           /\ calc.events[k].peer_id = m2.peer[2]}) = 4

Feeding(q, c) ==
    {i \in DOMAIN media[q].loops :
        media[q].loops[i].running /\ media[q].loops[i].tx = c}

\* The senders of connection q that a remote track was announced for.
TrackSenders(q) == {media[q].loops[i].tx : i \in DOMAIN media[q].loops}

\* C28: for every publisher in a room and each of its tracks (camera video,
\* audio, screen video), exactly one inbound RTP read loop feeds the
\* broadcast sender of that track: never two loops on one sender after
\* repeated on-track callbacks, never none while the publisher is in the
\* room.
C28_OneReadLoopPerTrack ==
    \A id \in RoomIds : \A p \in room[id].publishers :
       \A c \in TrackSenders(p.conn) :
          Cardinality(Feeding(p.conn, c)) = 1

\* on_track ran twice for video tracks of one publisher: two running loops
\* hold clones of the same sender and both have sent on it.
TwoLoopsOnSender ==
    \E id \in RoomIds : \E p \in room[id].publishers :
       /\ Cardinality(Feeding(p.conn, "video_tx")) = 2
       /\ VideoOn(p.conn, "video_tx")

\* A read loop ended on a read error; its publisher is connected and in the
\* room, and nothing feeds the sender any more.
NoLoopInRoom ==
    \E id \in RoomIds : \E p \in room[id].publishers :
       /\ peer_conn[p.conn].state \notin TerminalStates
       /\ \E c \in TrackSenders(p.conn) : Feeding(p.conn, c) = {}

(***************************************************************************)
(* The per-user lock and the exits of a match attempt                      *)
(***************************************************************************)
\* Task t holds the lock it acquired: it is inside try_match_inner or about
\* to release.
Acquired(t) == tasks[t].pc \in TmPcs \cup {"tm_unlock"}

\* The handler of task t returns in this step.
Returns(t) == ~ Idle(t) /\ tasks'[t] = IdleTask

\* C29: every match attempt that acquired the per-user lock has released it
\* by the time it returns, on every exit path: queue read error, user no
\* longer in the queue, race detected on removal, database connection or
\* insert failure, match created, and no candidate found.
C29_LockReleasedOnEveryExit ==
    [][\A t \in Slots :
          Acquired(t) /\ Returns(t) =>
             /\ lock'[tasks[t].user] = 0
             /\ tasks[t].exit \in {"queue_error", "not_in_queue", "race",
                                   "db_get", "insert", "matched",
                                   "no_candidate"}]_vars

\* One attempt has returned after a queue read error and the other after a
\* failed INSERT that put both users back; no lock is left.
C29_Witness ==
    /\ \E r \in returned : r.exit = "queue_error"
    /\ \E r \in returned : r.exit = "insert" /\ r.readded = {1, 2}
    /\ \A u \in Users : lock[u] = 0

\* The exits of an attempt that have been taken so far.
ExitsTaken == {r.exit : r \in returned}

(***************************************************************************)
(* The race on the two removals of a match attempt                         *)
(***************************************************************************)
InQueue(q, user_id) == FindUser(zrange(q), user_id) # {}

\* Exactly one of remove_from_queue(user_id) and
\* remove_from_queue(partner.user_id) came back false.
OneRemovalFailed(s) ==
    /\ s.pc \in {"tm_readd_self", "tm_readd_partner", "tm_unlock"}
    /\ s.best # {}
    /\ s.removed_self # s.removed_partner

\* The user whose removal succeeded.
Succeeded(s) ==
    IF s.removed_self THEN s.user ELSE (CHOOSE x \in s.best : TRUE).user_id

\* Task t takes this step.
Steps(t) == tasks'[t] # tasks[t]

\* The step creates no MatchSession, active-pair record, cooldown or
\* match-found event.
ProducesNothing == UNCHANGED <<match_sessions, pair, user_match, cooldown, emitted>>

\* C30 (as stated): if exactly one of the two queue removals of a match
\* attempt fails, then when the attempt returns the user whose removal
\* succeeded is back in the queue, no MatchSession, active-pair record,
\* cooldown or match-found event has been produced, and the initiating
\* socket has been sent "searching".
C30_RacedUserIsInQueueAtReturn ==
    [][\A t \in Slots :
          LET s == tasks[t] IN
          /\ OneRemovalFailed(s) /\ Steps(t) => ProducesNothing
          /\ OneRemovalFailed(s) /\ Returns(t) =>
                /\ InQueue(queue', Succeeded(s))
                /\ s.match_id = {}
                /\ s.searching]_vars

\* C30 (amended): if exactly one of the two queue removals of a match
\* attempt fails, the attempt puts the user whose removal succeeded, and
\* nobody else, back into the queue before it returns (that user is in the
\* queue right after the ZADD; a concurrent attempt may take them out again
\* before the return), the attempt produces no MatchSession, active-pair
\* record, cooldown or match-found event, and the initiating socket has been
\* sent "searching" when it returns.
C30_RacedUserIsPutBack ==
    [][\A t \in Slots :
          LET s == tasks[t] IN
          /\ OneRemovalFailed(s) /\ Steps(t) =>
                /\ ProducesNothing
                /\ \A u \in tasks'[t].readded \ s.readded :
                      u = Succeeded(s) /\ InQueue(queue', u)
          /\ OneRemovalFailed(s) /\ Returns(t) =>
                /\ s.readded = {Succeeded(s)}
                /\ s.match_id = {}
                /\ s.searching]_vars

\* An attempt removed its own user, lost the partner to a concurrent attempt,
\* put its user back and returned after "searching"; the user waits in the
\* queue and no session exists.
C30_Witness ==
    \E r \in returned :
       /\ r.exit = "race"
       /\ r.removed_self /\ ~ r.removed_partner
       /\ r.readded = {r.user}
       /\ r.searching
       /\ InQueue(queue, r.user)
       /\ match_sessions = <<>>

\* The attempt that put its user back has returned, and a concurrent attempt
\* has matched that user in the meantime.
PutBackThenMatched ==
    \E r \in returned :
       /\ r.exit = "race"
       /\ r.readded = {r.user}
       /\ ~ InQueue(queue, r.user)
       /\ user_match[r.user] # {}

(***************************************************************************)
(* The active-pair records and the user-to-match index                     *)
(***************************************************************************)
CreatingPcs == {"tm_rm_self", "tm_rm_self_zrem", "tm_rm_partner",
                "tm_rm_partner_zrem", "tm_insert", "tm_set_pair",
                "tm_set_user_a", "tm_set_user_b", "tm_cooldown"}

EndingPcs == {"em_get_partner", "em_find_session", "em_update_session",
              "rme_read", "rme_get_hist", "rme_save", "rme_del",
              "rap_get", "rap_del_a", "rap_del_b", "rap_del_pair"}

\* No match creation and no match end is part-way through.
NoMatchWork == \A t \in Slots : tasks[t].pc \notin CreatingPcs \cup EndingPcs

\* The active-pair records that name user u.
PairsOf(u) == {p \in pair : u \in {p.user_a, p.user_b}}

\* matching:user_match:<u> holds m exactly when matching:pair:<m> names u.
IndexMatchesPairs ==
    \A u \in Users :
       /\ \A m \in user_match[u] : \E p \in PairsOf(u) : p.match_id = m
       /\ \A p \in PairsOf(u) : user_match[u] = {p.match_id}

OneCurrentMatch == \A u \in Users : Cardinality(PairsOf(u)) <= 1

\* remove_active_pair of one match leaves the entries of other matches.
EndKeepsOtherEntries ==
    \A t \in Slots :
       tasks[t].pc \in {"rap_del_a", "rap_del_b"} /\ Steps(t) =>
          \A u \in Users :
             user_match[u] # {} /\ user_match[u] # tasks[t].arg_match =>
                user_match'[u] = user_match[u]

IndexWhenQuiet == [](NoMatchWork => IndexMatchesPairs /\ OneCurrentMatch)

EndKeepsOthers == [][EndKeepsOtherEntries]_vars

\* C31: in every state in which no match creation or match end is part-way
\* through, a user-to-match index entry u -> m exists exactly when an
\* active-pair record for m exists and names u, and every user has at most
\* one current match; ending one match never deletes the index entry that
\* points a user to a different match.
C31_IndexAgreesWithActivePairs ==
    /\ [](NoMatchWork => IndexMatchesPairs /\ OneCurrentMatch)
    /\ [][EndKeepsOtherEntries]_vars

\* A user is in an active pair that the index no longer leads to, and
\* nothing is in progress.
PairWithoutIndex ==
    /\ NoMatchWork
    /\ \E u \in Users : PairsOf(u) # {} /\ user_match[u] = {}

(***************************************************************************)
(* The room that its last publisher leaves                                 *)
(***************************************************************************)
\* The state-change callback of connection q finishes in this step; it has
\* removed a publisher and taken the room out of the registry.
CallbackRemovesRoom(q) ==
    /\ peer_conn[q].callback = "publisher_count"
    /\ peer_conn'[q].callback = "idle"
    /\ peer_conn[q].removed # {}
    /\ http[q].room_id \in rooms
    /\ http[q].room_id \notin rooms'

RoomDeletedInLog(log, id) ==
    {i \in DOMAIN log : log[i].kind = "room.deleted" /\ log[i].room_id = id}

\* C32: whenever a Broadcast room is removed from the registry because its
\* last publisher's connection reached Failed, Disconnected or Closed,
\* exactly one RoomDeleted event for that room is emitted on the event bus.
C32_CallbackRemovalEmitsRoomDeleted ==
    [][\A q \in Conns :
          CallbackRemovesRoom(q) /\ room[http[q].room_id].room_type = "Broadcast" =>
             Cardinality(RoomDeletedInLog(bus'.log, http[q].room_id))
                = Cardinality(RoomDeletedInLog(bus.log, http[q].room_id)) + 1]_vars

\* A Broadcast room is gone from the registry, no DELETE was sent, and the
\* bus carries no room.deleted.
RoomGoneSilently ==
    \E id \in RoomIds :
       /\ room[id] # NoRoom /\ room[id].room_type = "Broadcast"
       /\ id \notin rooms
       /\ RoomDeletedEvents(id) = {}

(***************************************************************************)
(* C33: the fan-out tasks of a publisher that its callback removed.        *)
(***************************************************************************)
\* The terminal-state callback of publisher p has run to its end and p is
\* no longer in the publishers of its room.
RemovedByCallback(p) ==
    /\ http[p].kind \in PublishKinds
    /\ peer_conn[p].state \in TerminalStates
    /\ peer_conn[p].queued = 0
    /\ peer_conn[p].callback = "idle"
    /\ Entry(p) \notin room[http[p].room_id].publishers

\* The task of label l of subscriber q reads a channel of a publisher that
\* its callback removed.
ReadsRemoved(q, l) ==
    /\ Running(q, l)
    /\ RemovedByCallback(subscriber[q].fanout[l].rx.conn)

\* C33: after a publisher has been removed from its room because its peer
\* connection reached a terminal state, every fan-out task subscribed to one
\* of its channels eventually terminates, unless the subscriber's own token
\* fires first.
C33_RemovedPublisherClosesFanout ==
    \A q \in Conns, l \in Labels :
       ReadsRemoved(q, l) ~> (Terminated(q, l) \/ subscriber[q].cancel)

\* A task still waits in its select! on a channel of a removed publisher
\* whose read loop has ended, and the token has not fired.
FanoutOutlivesPublisher ==
    \E q \in Conns, l \in Labels :
       /\ ReadsRemoved(q, l)
       /\ subscriber[q].fanout[l].state = "select"
       /\ ~ subscriber[q].cancel
       /\ \A i \in DOMAIN media[1].loops : ~ media[1].loops[i].running
       /\ media[1].loops # <<>>

(***************************************************************************)
(* C34: the screen track fed from a sibling "-screen" publisher.           *)
(***************************************************************************)
\* Subscriber q was given a screen track because of a sibling "-screen"
\* publisher, not because of an inline screen share of its target, and the
\* fan-out task of that track is spawned.
ScreenFromSibling(q) ==
    /\ subscriber[q].fanout["screen"].state # "none"
    /\ ~ subscriber[q].has_inline
    /\ subscriber[q].screen_source # subscriber[q].target

\* The senders the video read loops of publisher p send their packets on.
VideoSenders(p) ==
    {media[p].loops[i].tx :
        i \in {k \in DOMAIN media[p].loops : media[p].loops[k].kind = "video"}}

\* C34: the fan-out task of a screen track given because of a sibling
\* "-screen" publisher is subscribed to the channel into which that
\* publisher's video packets are sent.
C34_ScreenTaskReadsScreenChannel ==
    \A q \in Conns :
       ScreenFromSibling(q) =>
          /\ subscriber[q].fanout["screen"].rx.conn = subscriber[q].screen_source
          /\ VideoSenders(subscriber[q].screen_source)
                \subseteq {subscriber[q].fanout["screen"].rx.tx}

\* The screen publisher has sent a video packet on screen_tx and none on
\* video_tx while the screen task of a subscriber reads its video_tx.
ScreenPacketsUnread ==
    \E q \in Conns :
       /\ ScreenFromSibling(q)
       /\ Running(q, "screen")
       /\ subscriber[q].fanout["screen"].rx.tx = "video_tx"
       /\ media[subscriber[q].screen_source].tx["screen_tx"] # {}
       /\ media[subscriber[q].screen_source].tx["video_tx"] = {}

(***************************************************************************)
(* C35: one queue entry per user.                                          *)
(***************************************************************************)
\* The members of the sorted set that carry user_id.
EntriesOf(q, user_id) == {e \in q : e.member.user_id = user_id}

\* C35: in every reachable state a user id appears at most once in the
\* matching queue.
C35_UserQueuedAtMostOnce ==
    \A u \in Users : Cardinality(EntriesOf(queue, u)) <= 1

\* Two members of the sorted set carry the same user id and differ in
\* joined_at only.
QueuedTwice ==
    \E u \in Users :
       \E e, f \in EntriesOf(queue, u) :
          /\ e.member.joined_at # f.member.joined_at
          /\ [e.member EXCEPT !.joined_at = 0] = [f.member EXCEPT !.joined_at = 0]

(***************************************************************************)
(* C36: queued or matched, never both.                                     *)
(***************************************************************************)
\* User u is a member of an active match: an active-pair record names u or
\* the index of u names a match.
InActiveMatch(u) == PairsOf(u) # {} \/ user_match[u] # {}

\* C36: in every reachable state no user is at the same time in the
\* matching queue and a member of an active match.
C36_QueuedUserIsInNoMatch ==
    \A u \in Users : ~ (InQueue(queue, u) /\ InActiveMatch(u))

\* A user whose join-queue passed both of its checks while a match attempt
\* of the partner held them out of the queue is queued and in the match the
\* attempt then recorded; no handler is in flight.
QueuedAndMatched ==
    \E u \in Users :
       /\ InQueue(queue, u)
       /\ PairsOf(u) # {}
       /\ user_match[u] # {}
       /\ \A t \in Slots : Idle(t)

(***************************************************************************)
(* C37: one fold of the pair history per match session.                    *)
(***************************************************************************)
\* The match sessions of the pair k that have been ended.
EndedSessions(k) ==
    {m \in DOMAIN match_sessions :
        /\ PairKey(match_sessions[m].user_a_id, match_sessions[m].user_b_id) = k
        /\ match_sessions[m].ended_at # {}}

TimesMatched(k) ==
    IF pair_history[k] = {} THEN 0
    ELSE (CHOOSE h \in pair_history[k] : TRUE).times_matched

\* C37: the pair history is folded once per match session: times_matched of
\* a pair never exceeds the number of its ended sessions, also when both
\* members end the same match concurrently.
C37_HistoryFoldedOncePerSession ==
    \A k \in PairKeys : TimesMatched(k) <= Cardinality(EndedSessions(k))

\* One session of the pair, ended, and times_matched = 2 with no handler in
\* flight.
FoldedTwice ==
    \E k \in PairKeys :
       /\ Cardinality(EndedSessions(k)) = 1
       /\ TimesMatched(k) = 2
       /\ \A t \in Slots : Idle(t)

(***************************************************************************)
(* C38: an end-call of a user who is not a member of the match it names.   *)
(***************************************************************************)
\* The members of match session m.
MembersOf(m) == {match_sessions[m].user_a_id, match_sessions[m].user_b_id}

\* Task t handles an end-call that names match m, of which its user is not
\* a member.
ForeignEndCall(t, m) ==
    /\ tasks[t].handler = "end-call"
    /\ tasks[t].arg_match = {m}
    /\ m \in DOMAIN match_sessions
    /\ tasks[t].user \notin MembersOf(m)

\* C38: an end-call that names a match of which the caller is not a member
\* changes nothing about that match: no step of its handler changes the
\* session record, the active-pair records or the user-to-match index.
C38_ForeignEndCallChangesNothing ==
    [][\A t \in Slots, m \in ForeignMatchIds :
          ForeignEndCall(t, m) /\ Steps(t) =>
             /\ match_sessions' = match_sessions
             /\ pair' = pair
             /\ user_match' = user_match]_vars

\* The match of users 1 and 3 is ended with the outsider's reason, its pair
\* record and index entries are gone, and a member's chat message in it was
\* refused with NOT_IN_MATCH although no member ended the match.
ForeignEndCutsRelay ==
    \E m \in DOMAIN match_sessions :
       /\ MembersOf(m) = ForeignMembers
       /\ match_sessions[m].end_reason = {"user_ended"}
       /\ \A p \in pair : p.match_id # m
       /\ \A u \in ForeignMembers : user_match[u] = {}
       /\ \E u \in ForeignMembers : Count(emitted, NotInMatch(u, m)) > 0

(***************************************************************************)
(* C39: the callback of an earlier connection and a later publisher of     *)
(* the same peer id.                                                       *)
(***************************************************************************)
\* The entries of other connections that are in the room of q under the
\* peer id of q: they were registered after q's own entry, which they
\* replaced.
LaterUnderSameId(q) ==
    {p \in room[http[q].room_id].publishers :
        p.peer_id = Entry(q).peer_id /\ p.conn # q}

\* The callback of q runs its remove_publisher.
CallbackRemoves(q) ==
    /\ http[q].kind \in PublishKinds
    /\ peer_conn[q].callback = "idle"
    /\ peer_conn'[q].callback = "publisher_count"

\* The callback of q removes its room from the registry.
CallbackDropsRoom(q) ==
    /\ http[q].kind \in PublishKinds
    /\ peer_conn[q].callback = "publisher_count"
    /\ peer_conn'[q].callback = "idle"
    /\ http[q].room_id \in rooms
    /\ http[q].room_id \notin rooms'

\* C39: a terminal-state callback of an earlier peer connection never
\* removes a publisher registered later under the same peer id, and never
\* removes the room from the registry while that newer publisher is live.
C39_CallbackSparesLaterPublisher ==
    [][\A q \in Conns :
          /\ CallbackRemoves(q) =>
                LaterUnderSameId(q) \subseteq room'[http[q].room_id].publishers
          /\ CallbackDropsRoom(q) =>
                \A p \in Conns \ {q} :
                   (http[p].sub = http[q].sub /\ http[p].result = "ok")
                      => peer_conn[p].state \notin {"new", "connecting", "connected"}
      ]_vars

\* The client joined again on connection 2, whose transport is connected;
\* the callback of connection 1 has run, connection 2's publisher is in no
\* room and the room is gone from the registry.
RejoinedPeerDropped ==
    /\ http[2].result = "ok"
    /\ peer_conn[2].state = "connected"
    /\ peer_conn[1].state \in TerminalStates
    /\ peer_conn[1].callback = "idle" /\ peer_conn[1].queued = 0
    /\ Entry(2) \notin room[1].publishers
    /\ 1 \notin rooms

(***************************************************************************)
(* C40: one active recording per room.                                     *)
(***************************************************************************)
\* The active recordings of a room.
ActiveRecordings(room_id) ==
    {h \in calc.active : h.room_id = room_id /\ h.is_active}

\* C40: at most one recording is active per room at any time, also when two
\* start-recording requests for the same room race.
C40_OneActiveRecordingPerRoom ==
    \A room_id \in RecordingRooms : Cardinality(ActiveRecordings(room_id)) <= 1

\* Two start requests for room 1 were both answered with a RecordingInfo
\* and both recordings are active; none met a conflict.
TwoRecordingsOfOneRoom ==
    /\ Cardinality(ActiveRecordings(1)) = 2
    /\ \A r \in {1, 2} : calc.req[r].room_id = 1 /\ calc.req[r].result = "ok"
=============================================================================
